---------------------------- MODULE Spec2Model ----------------------------
(***************************************************************************)
(* Model of the MapReduce word-count demo: the master coordinator          *)
(* (src/serveur.py, MasterServer) and the worker (src/client.py,           *)
(* MapReduceClient).                                                       *)
(*                                                                         *)
(* A control connection is identified by a number c.  Its master side is   *)
(* the ClientInfo object and the handler thread (_handle_client); its      *)
(* worker side is one MapReduceClient process.  Time is not measured: a    *)
(* deadline is "armed" when it is set and becomes "elapsed" at an          *)
(* arbitrary later instant (action Tick).                                  *)
(***************************************************************************)
EXTENDS Integers, Sequences, FiniteSets, TLC

\* ------------------------------------------------------------------ bounds
MaxConns == 2        \* control connections opened during one master lifetime
MaxIndex == 2        \* worker identifiers range over 1..MaxIndex
MaxExpected == 2     \* --num-workers ranges over 1..MaxExpected

Conns == 1..MaxConns
Indices == 1..MaxIndex

\* ------------------------------------------------------- dictionaries
\* A Python dict is a function whose domain is the set of its keys.
EmptyDict == [k \in {} |-> 0]

DictLen(d) == Cardinality(DOMAIN d)

DictSet(d, k, v) == [x \in (DOMAIN d) \cup {k} |-> IF x = k THEN v ELSE d[x]]

DictPop(d, k) == [x \in (DOMAIN d) \ {k} |-> d[x]]

\* list(d.items()) as the set of its (key, value) pairs
DictItems(d) == {<<k, d[k]>> : k \in DOMAIN d}

\* ------------------------------------------------------------ word counts
Words == {"a", "b", "c"}

\* The order of Python's string comparison on the words of the model.
WordRank(w) == CASE w = "a" -> 1 [] w = "b" -> 2 [] w = "c" -> 3

\* Mutant of CounterAdd: the count is assigned, not added.
CounterAssign(counter, word, count) == DictSet(counter, word, count)

\* collections.Counter: counter[word] += count
CounterAdd(counter, word, count) ==
    IF word \in DOMAIN counter
    THEN [counter EXCEPT ![word] = @ + count]
    ELSE DictSet(counter, word, count)

\* ------------------------------------------------------------------ frames
\* the size of the length prefix: struct.pack(">I", ...) gives four bytes
HeaderLen == 4

\* the number of values of a byte
Byte == 2^8

\* struct.pack(">I", n)
Pack(n) ==
    <<(n \div (Byte * Byte * Byte)) % Byte, (n \div (Byte * Byte)) % Byte,
      (n \div Byte) % Byte, n % Byte>>

\* struct.unpack(">I", header)[0]
Unpack(header) ==
    ((header[1] * Byte + header[2]) * Byte + header[3]) * Byte + header[4]

\* header + payload of _send_frame and _send_count
Frame(data) == Pack(Len(data)) \o data

\* the UTF-8 code of a one-letter word
WordByte(word) == CASE word = "a" -> 97 [] word = "b" -> 98 [] word = "c" -> 99

\* word.encode(self.encoding)
Encode(word) == IF word = "" THEN <<>> ELSE <<WordByte(word)>>

\* payload.decode(self.encoding)
Decode(data) ==
    IF data = <<>> THEN "" ELSE CHOOSE word \in Words : Encode(word) = data

\* frame * count for each word in turn
RECURSIVE FramesOf(_)
FramesOf(words) ==
    IF words = <<>> THEN <<>>
    ELSE Frame(Encode(Head(words))) \o FramesOf(Tail(words))

\* --flush-threshold, default of parse_args and of __init__
DefaultFlushThreshold == 64 * 1024

VARIABLES
    \* master configuration (MasterServer.__init__)
    expected_workers,       \* self.expected_workers
    registration_timeout,   \* TRUE iff --registration-timeout is a positive number
    stage_timeout,          \* TRUE iff --stage-timeout is a positive number
    \* master shared state, guarded by self._condition
    clients,                \* self._clients: machine_index -> connection
    map_finished,           \* self._map_finished: machine_index -> success
    reduce_results,         \* self._reduce_results: machine_index -> word counts
    start_map_sent,         \* self._start_map_sent
    start_reduce_sent,      \* self._start_reduce_sent
    current_stage,          \* self._current_stage ("none" is Python's None)
    stop_event,             \* self._stop_event
    registration_deadline,  \* self._registration_deadline: "none", "armed", "elapsed"
    stage_deadlines,        \* self._stage_deadlines: stage -> "none", "armed", "elapsed"
    \* the coordinator thread (_coordinate)
    coord_pc,               \* "locked": in the inner loop; "broadcast"; "done"
    payload,                \* the message being broadcast
    clients_snapshot,       \* the (index, connection) pairs still to be sent to
    failed,                 \* _broadcast's failed list
    post_action,            \* post_action of _coordinate
    final_counts,           \* what _emit_final_result printed ("printed" flag and counts)
    \* one control connection
    sock,                   \* "none", "open", "peer_closed" (worker side closed), "closed"
    handler,                \* _handle_client thread: "none", "recv", "done"
    info_index,             \* ClientInfo.machine_index (0 is None)
    inbox,                  \* frames written by the worker, not yet read by the handler
    outbox,                 \* frames written by the master, not yet read by the worker
    \* the worker process at the other end of the connection
    worker,                 \* "none", "registered", "mapped", "reduced", "exited"
    worker_id,              \* MapReduceClient.worker_id (0 before the process exists)
    incoming_counts,        \* MapReduceClient._incoming_counts
    shuffle,                \* shuffle[src][dst]: bytes written by worker src to
                            \* worker dst, not yet read by dst's shuffle handler
    listener,               \* the listener thread: "none", "started", "listening"
    pending_frames,         \* MapReduceClient._pending_frames: the (destination,
                            \* buffer) entries in insertion order
    outgoing_sockets,       \* the keys of MapReduceClient._outgoing_sockets
    map_input,              \* the words _iter_words has still to yield
    map_status,             \* _run_map_stage: "none", "ok", "error" (the except
                            \* clause ran)
    flush_threshold,        \* MapReduceClient._flush_threshold
    peer_up,                \* the destinations whose listener accepts a connection
                            \* within the five attempts of _get_outgoing_socket
    connect_attempts,       \* per destination, the calls of create_connection
                            \* a worker has made at least (one for a connection
                            \* that succeeded)
    \* one byte stream and the frame reader at its end
    wire,                   \* the bytes written and not yet received
    wire_closed,            \* the writer has closed its end
    written,                \* the payloads of the whole frames written
    written_cut,            \* the writer stopped in the middle of a frame
    rd_pc,                  \* the reader: "header", "payload", "stopped"
    rd_buf,                 \* data of _recv_exact
    rd_size,                \* size, once the length prefix is read
    delivered,              \* the payloads the reader has handed on
    outcomes,               \* how each stream ended and what the reader returned
    streams,                \* the number of streams read so far
    \* one split file and its map by chunks
    file,                   \* the bytes of the split file
    map_workers,            \* MapReduceClient._map_workers
    offsets,                \* offsets of _run_map_stage
    chunk_pc,               \* "input", "offsets", "chunks", "lines", "done"
    chunk_next,             \* the position in offsets of the next chunk
    chunk_counts,           \* per destination, the counts sent from the chunks
    use_parallel,           \* the map stage took the path by chunks
    \* calls of _hash_to_index on worker objects
    hash_name,              \* MapReduceClient._hash_name
    hosts_len,              \* len(MapReduceClient.hosts)
    hash_calls,             \* the calls made: worker, word and index returned
    \* the inbound shuffle connections of a worker
    inbound,                \* per peer: "none", "open", "closed" (by the peer)
    consumers,              \* per peer, the thread of _consume_shuffle_stream:
                            \* "none", "head" (at the loop head), "recv"
                            \* (blocked in _recv_exact), "done"
    unsent,                 \* the bytes of a frame the peer's sendall has still
                            \* to put on the one byte stream
    \* observations
    sent,                   \* broadcasts decided, per message type, and the
                            \* reason of the shutdown payload
    failure_reported        \* the master has read a success=false report

master_vars == <<expected_workers, registration_timeout, stage_timeout, clients,
                 map_finished, reduce_results, start_map_sent, start_reduce_sent,
                 current_stage, stop_event, registration_deadline, stage_deadlines>>
coord_vars == <<coord_pc, payload, clients_snapshot, failed, post_action, final_counts>>
conn_vars == <<sock, handler, info_index, inbox, outbox>>
shuffle_vars == <<incoming_counts, shuffle>>
worker_vars == <<worker, worker_id, shuffle_vars>>
obs_vars == <<sent, failure_reported>>
map_vars == <<listener, pending_frames, outgoing_sockets, map_input, map_status,
              flush_threshold, peer_up, connect_attempts>>
\* the state of the parts looked at on their own
stream_vars == <<wire, wire_closed, written, written_cut, rd_pc, rd_buf, rd_size,
                 delivered, outcomes, streams>>
chunk_vars == <<file, map_workers, offsets, chunk_pc, chunk_next, chunk_counts,
                use_parallel>>
hash_vars == <<hash_name, hosts_len, hash_calls>>
inbound_vars == <<inbound, consumers, unsent>>
pure_vars == <<stream_vars, chunk_vars, hash_vars, inbound_vars>>
net_vars == <<master_vars, coord_vars, conn_vars, worker_vars, obs_vars>>
unit_vars == <<map_vars, pure_vars>>
vars == <<master_vars, coord_vars, conn_vars, worker_vars, obs_vars, unit_vars>>


\* ---------------------------------------------------------------- messages
\* Control messages worker -> master (client.py _connect_master, _control_loop).
\* results is the list of [word, count] pairs of reduce_finished.
RegisterMsg(i) ==
    [type |-> "register", machine_index |-> i, success |-> TRUE, results |-> <<>>]
MapFinishedMsg(i, status) ==
    [type |-> "map_finished", machine_index |-> i, success |-> status, results |-> <<>>]
ReduceFinishedMsg(i, status, results) ==
    [type |-> "reduce_finished", machine_index |-> i, success |-> status,
     results |-> results]

\* Control messages master -> worker (the payloads of _coordinate).
StartMapPayload == [type |-> "start_map", reason |-> "none"]
StartReducePayload == [type |-> "start_reduce", reason |-> "none"]
ShutdownPayload(reason) == [type |-> "shutdown", reason |-> reason]
NoPayload == [type |-> "none", reason |-> "none"]

\* snapshot.sort() of client.py: the (word, count) pairs in increasing word order
RECURSIVE SortedItems(_)
SortedItems(counter) ==
    IF DOMAIN counter = {} THEN <<>>
    ELSE LET w == CHOOSE x \in DOMAIN counter :
                      \A y \in DOMAIN counter : WordRank(x) <= WordRank(y)
         IN  <<<<w, counter[w]>>>> \o SortedItems(DictPop(counter, w))

\* results_dict of _process_message: results_dict[word] = count for each entry
RECURSIVE ResultsDict(_)
ResultsDict(raw_results) ==
    IF raw_results = <<>> THEN EmptyDict
    ELSE LET n == Len(raw_results)
             entry == raw_results[n]
         IN  DictSet(ResultsDict(SubSeq(raw_results, 1, n - 1)), entry[1], entry[2])

\* ------------------------------------------------------- master: deadlines
\* Mutant of DeadlineFromTimeout: a deadline is set whatever the timeout.
DeadlineAlways(timeout) == "armed"

\* _deadline_from_timeout: no deadline for a timeout that is None or not
\* positive
DeadlineFromTimeout(timeout) == IF timeout THEN "armed" ELSE "none"

\* Mutant of DeadlineExpiredLocked: the registration deadline is not looked at.
DeadlineExpiredStageOnly ==
    IF current_stage = "map" /\ stage_deadlines["map"] = "elapsed" THEN "map"
    ELSE IF current_stage = "reduce" /\ stage_deadlines["reduce"] = "elapsed"
         THEN "reduce"
    ELSE "none"

\* _deadline_expired_locked: the stage whose deadline has passed, or "none"
DeadlineExpiredLocked ==
    IF registration_deadline = "elapsed" THEN "registration"
    ELSE IF current_stage = "map" /\ stage_deadlines["map"] = "elapsed" THEN "map"
    ELSE IF current_stage = "reduce" /\ stage_deadlines["reduce"] = "elapsed"
         THEN "reduce"
    ELSE "none"

\* reason=f"{timeout_stage}_timeout" of _coordinate
TimeoutReason(timeout_stage) ==
    CASE timeout_stage = "registration" -> "registration_timeout"
      [] timeout_stage = "map" -> "map_timeout"
      [] timeout_stage = "reduce" -> "reduce_timeout"

\* time.monotonic() passes a deadline that is set
Tick ==
    /\ coord_pc # "done"
    /\ \/ /\ registration_deadline = "armed"
          /\ registration_deadline' = "elapsed"
          /\ UNCHANGED stage_deadlines
       \/ /\ \E stage \in {"map", "reduce"} :
                /\ stage_deadlines[stage] = "armed"
                /\ stage_deadlines' = [stage_deadlines EXCEPT ![stage] = "elapsed"]
          /\ UNCHANGED registration_deadline
    /\ UNCHANGED <<expected_workers, registration_timeout, stage_timeout, clients,
                   map_finished, reduce_results, start_map_sent, start_reduce_sent,
                   current_stage, stop_event>>
    /\ UNCHANGED <<coord_vars, conn_vars, worker_vars, obs_vars>>
    /\ UNCHANGED unit_vars

\* ----------------------------------------------------- master: aggregation
\* _emit_final_result: final_counts[word] += count over every partial mapping
RECURSIVE AddPartial(_, _)
AddPartial(final, partial) ==
    IF DOMAIN partial = {} THEN final
    ELSE LET word == CHOOSE w \in DOMAIN partial : TRUE
         IN  AddPartial(CounterAdd(final, word, partial[word]), DictPop(partial, word))

RECURSIVE SumPartials(_, _)
SumPartials(final, results) ==
    IF DOMAIN results = {} THEN final
    ELSE LET i == CHOOSE k \in DOMAIN results : TRUE
         IN  SumPartials(AddPartial(final, results[i]), DictPop(results, i))

EmitFinalResult == SumPartials(EmptyDict, reduce_results)

\* ----------------------------------------------------- master: coordinator
Bump(log, message) ==
    [log EXCEPT ![message.type] = @ + 1,
                !.reason = IF message.type = "shutdown" THEN message.reason ELSE @]

\* _coordinate, lines 199-205: a deadline has passed (checked first)
CoordinateTimeout ==
    /\ coord_pc = "locked"
    /\ ~stop_event
    /\ DeadlineExpiredLocked # "none"
    \* _prepare_shutdown_locked
    /\ stop_event' = TRUE
    /\ registration_deadline' = "none"
    /\ stage_deadlines' = [map |-> "none", reduce |-> "none"]
    /\ current_stage' = "none"
    /\ clients_snapshot' = DictItems(clients)
    /\ payload' = ShutdownPayload(TimeoutReason(DeadlineExpiredLocked))
    /\ post_action' = "timeout"
    /\ coord_pc' = "broadcast"
    /\ sent' = Bump(sent, payload')
    /\ UNCHANGED <<expected_workers, registration_timeout, stage_timeout, clients,
                   map_finished, reduce_results, start_map_sent, start_reduce_sent>>
    /\ UNCHANGED <<failed, final_counts, conn_vars, worker_vars, failure_reported>>
    /\ UNCHANGED unit_vars

\* Mutant of CoordinateStartMap: the barrier does not look at _start_map_sent.
CoordinateStartMapAgain ==
    /\ coord_pc = "locked"
    /\ ~stop_event
    /\ DeadlineExpiredLocked = "none"
    /\ DictLen(clients) >= expected_workers
    /\ clients_snapshot' = DictItems(clients)
    /\ payload' = StartMapPayload
    /\ start_map_sent' = TRUE
    /\ post_action' = "start_map"
    /\ current_stage' = "map"
    /\ registration_deadline' = "none"
    /\ stage_deadlines' = [stage_deadlines EXCEPT
                              !["map"] = DeadlineFromTimeout(stage_timeout)]
    /\ coord_pc' = "broadcast"
    /\ sent' = Bump(sent, payload')
    /\ UNCHANGED <<expected_workers, registration_timeout, stage_timeout, clients,
                   map_finished, reduce_results, start_reduce_sent, stop_event>>
    /\ UNCHANGED <<failed, final_counts, conn_vars, worker_vars, failure_reported>>
    /\ UNCHANGED unit_vars

\* _coordinate, lines 206-219: the registration barrier
CoordinateStartMap ==
    /\ coord_pc = "locked"
    /\ ~stop_event
    /\ DeadlineExpiredLocked = "none"
    /\ ~start_map_sent
    /\ DictLen(clients) >= expected_workers
    /\ clients_snapshot' = DictItems(clients)
    /\ payload' = StartMapPayload
    /\ start_map_sent' = TRUE
    /\ post_action' = "start_map"
    /\ current_stage' = "map"
    /\ registration_deadline' = "none"
    /\ stage_deadlines' = [stage_deadlines EXCEPT
                              !["map"] = DeadlineFromTimeout(stage_timeout)]
    /\ coord_pc' = "broadcast"
    /\ sent' = Bump(sent, payload')
    /\ UNCHANGED <<expected_workers, registration_timeout, stage_timeout, clients,
                   map_finished, reduce_results, start_reduce_sent, stop_event>>
    /\ UNCHANGED <<failed, final_counts, conn_vars, worker_vars, failure_reported>>
    /\ UNCHANGED unit_vars

\* Mutant of CoordinateStartReduce: the map barrier waits for one report more
\* than expected_workers.
CoordinateStartReduceStrict ==
    /\ coord_pc = "locked"
    /\ ~stop_event
    /\ DeadlineExpiredLocked = "none"
    /\ start_map_sent
    /\ ~start_reduce_sent
    /\ DictLen(map_finished) > expected_workers
    /\ clients_snapshot' = DictItems(clients)
    /\ payload' = StartReducePayload
    /\ start_reduce_sent' = TRUE
    /\ post_action' = "start_reduce"
    /\ current_stage' = "reduce"
    /\ stage_deadlines' = [map |-> "none",
                           reduce |-> DeadlineFromTimeout(stage_timeout)]
    /\ coord_pc' = "broadcast"
    /\ sent' = Bump(sent, payload')
    /\ UNCHANGED <<expected_workers, registration_timeout, stage_timeout, clients,
                   map_finished, reduce_results, start_map_sent, stop_event,
                   registration_deadline>>
    /\ UNCHANGED <<failed, final_counts, conn_vars, worker_vars, failure_reported>>
    /\ UNCHANGED unit_vars

\* Mutant of CoordinateStartReduce: the map barrier counts the reports against
\* the workers still registered.
CoordinateStartReduceLive ==
    /\ coord_pc = "locked"
    /\ ~stop_event
    /\ DeadlineExpiredLocked = "none"
    /\ start_map_sent
    /\ ~start_reduce_sent
    /\ DictLen(map_finished) >= DictLen(clients)
    /\ clients_snapshot' = DictItems(clients)
    /\ payload' = StartReducePayload
    /\ start_reduce_sent' = TRUE
    /\ post_action' = "start_reduce"
    /\ current_stage' = "reduce"
    /\ stage_deadlines' = [map |-> "none",
                           reduce |-> DeadlineFromTimeout(stage_timeout)]
    /\ coord_pc' = "broadcast"
    /\ sent' = Bump(sent, payload')
    /\ UNCHANGED <<expected_workers, registration_timeout, stage_timeout, clients,
                   map_finished, reduce_results, start_map_sent, stop_event,
                   registration_deadline>>
    /\ UNCHANGED <<failed, final_counts, conn_vars, worker_vars, failure_reported>>
    /\ UNCHANGED unit_vars

\* Mutant of CoordinateStartReduce: the barrier does not look at
\* _start_reduce_sent.
CoordinateStartReduceAgain ==
    /\ coord_pc = "locked"
    /\ ~stop_event
    /\ DeadlineExpiredLocked = "none"
    /\ start_map_sent
    /\ DictLen(map_finished) >= expected_workers
    /\ clients_snapshot' = DictItems(clients)
    /\ payload' = StartReducePayload
    /\ start_reduce_sent' = TRUE
    /\ post_action' = "start_reduce"
    /\ current_stage' = "reduce"
    /\ stage_deadlines' = [map |-> "none",
                           reduce |-> DeadlineFromTimeout(stage_timeout)]
    /\ coord_pc' = "broadcast"
    /\ sent' = Bump(sent, payload')
    /\ UNCHANGED <<expected_workers, registration_timeout, stage_timeout, clients,
                   map_finished, reduce_results, start_map_sent, stop_event,
                   registration_deadline>>
    /\ UNCHANGED <<failed, final_counts, conn_vars, worker_vars, failure_reported>>
    /\ UNCHANGED unit_vars

\* _coordinate, lines 220-234: the map barrier
CoordinateStartReduce ==
    /\ coord_pc = "locked"
    /\ ~stop_event
    /\ DeadlineExpiredLocked = "none"
    /\ start_map_sent
    /\ ~start_reduce_sent
    /\ DictLen(map_finished) >= expected_workers
    /\ clients_snapshot' = DictItems(clients)
    /\ payload' = StartReducePayload
    /\ start_reduce_sent' = TRUE
    /\ post_action' = "start_reduce"
    /\ current_stage' = "reduce"
    /\ stage_deadlines' = [map |-> "none",
                           reduce |-> DeadlineFromTimeout(stage_timeout)]
    /\ coord_pc' = "broadcast"
    /\ sent' = Bump(sent, payload')
    /\ UNCHANGED <<expected_workers, registration_timeout, stage_timeout, clients,
                   map_finished, reduce_results, start_map_sent, stop_event,
                   registration_deadline>>
    /\ UNCHANGED <<failed, final_counts, conn_vars, worker_vars, failure_reported>>
    /\ UNCHANGED unit_vars

\* Mutant of CoordinateShutdown: the final result is emitted as soon as
\* start_reduce was sent, whatever has been reported.
CoordinateShutdownEarly ==
    /\ coord_pc = "locked"
    /\ ~stop_event
    /\ DeadlineExpiredLocked = "none"
    /\ start_reduce_sent
    /\ final_counts' = [printed |-> final_counts.printed + 1, counts |-> EmitFinalResult]
    /\ clients_snapshot' = DictItems(clients)
    /\ payload' = ShutdownPayload("none")
    /\ stage_deadlines' = [stage_deadlines EXCEPT !["reduce"] = "none"]
    /\ current_stage' = "none"
    /\ stop_event' = TRUE
    /\ post_action' = "shutdown"
    /\ coord_pc' = "broadcast"
    /\ sent' = Bump(sent, payload')
    /\ UNCHANGED <<expected_workers, registration_timeout, stage_timeout, clients,
                   map_finished, reduce_results, start_map_sent, start_reduce_sent,
                   registration_deadline>>
    /\ UNCHANGED <<failed, conn_vars, worker_vars, failure_reported>>
    /\ UNCHANGED unit_vars

\* Mutant of CoordinateShutdown: the reduce barrier is looked at before the
\* deadlines.
CoordinateShutdownLate ==
    /\ coord_pc = "locked"
    /\ ~stop_event
    /\ start_reduce_sent
    /\ DictLen(reduce_results) >= expected_workers
    /\ final_counts' = [printed |-> final_counts.printed + 1, counts |-> EmitFinalResult]
    /\ clients_snapshot' = DictItems(clients)
    /\ payload' = ShutdownPayload("none")
    /\ stage_deadlines' = [stage_deadlines EXCEPT !["reduce"] = "none"]
    /\ current_stage' = "none"
    /\ stop_event' = TRUE
    /\ post_action' = "shutdown"
    /\ coord_pc' = "broadcast"
    /\ sent' = Bump(sent, payload')
    /\ UNCHANGED <<expected_workers, registration_timeout, stage_timeout, clients,
                   map_finished, reduce_results, start_map_sent, start_reduce_sent,
                   registration_deadline>>
    /\ UNCHANGED <<failed, conn_vars, worker_vars, failure_reported>>
    /\ UNCHANGED unit_vars

\* _coordinate, lines 235-246: the reduce barrier, the final result and shutdown
CoordinateShutdown ==
    /\ coord_pc = "locked"
    /\ ~stop_event
    /\ DeadlineExpiredLocked = "none"
    /\ start_reduce_sent
    /\ DictLen(reduce_results) >= expected_workers
    /\ final_counts' = [printed |-> final_counts.printed + 1, counts |-> EmitFinalResult]
    /\ clients_snapshot' = DictItems(clients)
    /\ payload' = ShutdownPayload("none")
    /\ stage_deadlines' = [stage_deadlines EXCEPT !["reduce"] = "none"]
    /\ current_stage' = "none"
    /\ stop_event' = TRUE
    /\ post_action' = "shutdown"
    /\ coord_pc' = "broadcast"
    /\ sent' = Bump(sent, payload')
    /\ UNCHANGED <<expected_workers, registration_timeout, stage_timeout, clients,
                   map_finished, reduce_results, start_map_sent, start_reduce_sent,
                   registration_deadline>>
    /\ UNCHANGED <<failed, conn_vars, worker_vars, failure_reported>>
    /\ UNCHANGED unit_vars

\* ------------------------------------------------------- master: broadcast
\* _broadcast, lines 270-281: send_json to one (index, info) of the snapshot.
\* A send on a socket the master has closed or shut down raises OSError; a send
\* to a peer that has gone either raises or is lost in the kernel.
BroadcastSendOk(index, c) ==
    /\ sock[c] = "open"
    /\ outbox' = [outbox EXCEPT ![c] = Append(@, payload)]
    \* info.sock.shutdown(socket.SHUT_RDWR) after a shutdown message
    /\ sock' = IF payload.type = "shutdown" THEN [sock EXCEPT ![c] = "closed"]
               ELSE sock
    /\ UNCHANGED failed

BroadcastSendLost(index, c) ==
    /\ sock[c] = "peer_closed"
    /\ UNCHANGED <<outbox, failed>>
    /\ sock' = IF payload.type = "shutdown" THEN [sock EXCEPT ![c] = "closed"]
               ELSE sock

BroadcastSendFailed(index, c) ==
    /\ sock[c] \in {"peer_closed", "closed"}
    /\ failed' = failed \cup {<<index, c>>}
    /\ UNCHANGED <<outbox, sock>>

BroadcastSend ==
    /\ coord_pc = "broadcast"
    /\ \E item \in clients_snapshot :
          /\ clients_snapshot' = clients_snapshot \ {item}
          /\ \/ BroadcastSendOk(item[1], item[2])
             \/ BroadcastSendLost(item[1], item[2])
             \/ BroadcastSendFailed(item[1], item[2])
    /\ UNCHANGED <<master_vars, coord_pc, payload, post_action, final_counts>>
    /\ UNCHANGED <<handler, info_index, inbox, worker_vars, obs_vars>>
    /\ UNCHANGED unit_vars

\* Mutant of RemoveFailedClients: the index of a failed connection is removed
\* whatever connection the registry maps it to.
RemoveFailedByIndex(registry) ==
    [i \in {k \in DOMAIN registry : \A item \in failed : item[1] # k} |-> registry[i]]

\* _remove_failed_clients: the registry without the failed connections that it
\* still maps their index to
RemoveFailedClients(registry) ==
    [i \in {k \in DOMAIN registry : <<k, registry[k]>> \notin failed} |-> registry[i]]

\* _coordinate, lines 249-258, after the last send of _broadcast: failed
\* connections are closed and removed; after start_map and start_reduce the
\* coordinator goes back to its loop; after shutdown or a timeout it returns and
\* start() (lines 100-108) sets the stop event and closes every client.
BroadcastEnd ==
    /\ coord_pc = "broadcast"
    /\ clients_snapshot = {}
    /\ failed' = {}
    /\ payload' = NoPayload
    /\ post_action' = "none"
    /\ IF post_action \in {"shutdown", "timeout"}
       THEN /\ coord_pc' = "done"
            /\ stop_event' = TRUE
            /\ clients' = EmptyDict
            /\ sock' = [c \in DOMAIN sock |->
                          IF \/ \E item \in failed : item[2] = c
                             \/ \E i \in DOMAIN RemoveFailedClients(clients) :
                                    clients[i] = c
                          THEN "closed" ELSE sock[c]]
       ELSE /\ coord_pc' = "locked"
            /\ clients' = RemoveFailedClients(clients)
            /\ sock' = [c \in DOMAIN sock |->
                          IF \E item \in failed : item[2] = c
                          THEN "closed" ELSE sock[c]]
            /\ UNCHANGED stop_event
    /\ UNCHANGED <<expected_workers, registration_timeout, stage_timeout,
                   map_finished, reduce_results, start_map_sent, start_reduce_sent,
                   current_stage, registration_deadline, stage_deadlines>>
    /\ UNCHANGED <<clients_snapshot, final_counts, handler, info_index, inbox, outbox>>
    /\ UNCHANGED <<worker_vars, obs_vars>>
    /\ UNCHANGED unit_vars

\* ------------------------------------------------- master: handler threads
\* _process_message, lines 144-155
ProcessRegister(c, message) ==
    LET machine_index == message.machine_index
    IN  /\ info_index' = [info_index EXCEPT ![c] = machine_index]
        /\ sock' = IF machine_index \in DOMAIN clients /\ clients[machine_index] # c
                   THEN [sock EXCEPT ![clients[machine_index]] = "closed"]
                   ELSE sock
        /\ clients' = DictSet(clients, machine_index, c)
        /\ UNCHANGED <<map_finished, reduce_results, failure_reported>>

\* _process_message, lines 156-164
ProcessMapFinished(c, message) ==
    /\ map_finished' = DictSet(map_finished, message.machine_index, message.success)
    /\ failure_reported' = (failure_reported \/ ~message.success)
    /\ UNCHANGED <<clients, reduce_results, info_index, sock>>

\* Mutant of ProcessReduceFinished: the counts of a report are added to the
\* counts already recorded for the index.
ProcessReduceFinishedAdd(c, message) ==
    /\ reduce_results' =
          DictSet(reduce_results, message.machine_index,
                  AddPartial(IF message.machine_index \in DOMAIN reduce_results
                             THEN reduce_results[message.machine_index]
                             ELSE EmptyDict,
                             IF message.success THEN ResultsDict(message.results)
                             ELSE EmptyDict))
    /\ failure_reported' = (failure_reported \/ ~message.success)
    /\ UNCHANGED <<clients, map_finished, info_index, sock>>

\* _process_message, lines 165-184
ProcessReduceFinished(c, message) ==
    /\ reduce_results' =
          DictSet(reduce_results, message.machine_index,
                  IF message.success THEN ResultsDict(message.results) ELSE EmptyDict)
    /\ failure_reported' = (failure_reported \/ ~message.success)
    /\ UNCHANGED <<clients, map_finished, info_index, sock>>

\* _process_message; lines 185-186: any other type is printed and ignored
ProcessMessage(c, message) ==
    CASE message.type = "register" -> ProcessRegister(c, message)
      [] message.type = "map_finished" -> ProcessMapFinished(c, message)
      [] message.type = "reduce_finished" -> ProcessReduceFinished(c, message)
      [] OTHER -> UNCHANGED <<clients, map_finished, reduce_results, info_index,
                              sock, failure_reported>>

\* What recv_json cannot return as a message: a frame whose payload is not
\* JSON (json.loads raises), and a frame cut short by the end of the stream
\* (recv_exact returns None).
FramingErrors == {"malformed", "truncated"}

BadFrame(kind) ==
    [type |-> kind, machine_index |-> 0, success |-> TRUE, results |-> <<>>]

HasBadFrame(box) == \E k \in DOMAIN box : box[k].type \in FramingErrors

\* _handle_client, lines 129-133: one turn of the loop.  The handler is blocked
\* in recv_json; the stop event is looked at after the message is processed.
HandleClient(c) ==
    /\ handler[c] = "recv"
    /\ sock[c] \in {"open", "peer_closed"}
    /\ inbox[c] # <<>>
    /\ Head(inbox[c]).type \notin FramingErrors
    /\ ProcessMessage(c, Head(inbox[c]))
    /\ inbox' = [inbox EXCEPT ![c] = Tail(@)]
    /\ handler' = [handler EXCEPT ![c] = IF stop_event THEN "finally" ELSE "recv"]
    /\ UNCHANGED <<expected_workers, registration_timeout, stage_timeout,
                   start_map_sent, start_reduce_sent, current_stage, stop_event,
                   registration_deadline, stage_deadlines>>
    /\ UNCHANGED <<coord_vars, outbox, worker_vars, sent>>
    /\ UNCHANGED unit_vars

\* Mutant of HandleClientBadFrame: a framing error stops the whole server.
HandleClientBadFrameStops(c) ==
    /\ handler[c] = "recv"
    /\ sock[c] \in {"open", "peer_closed"}
    /\ inbox[c] # <<>>
    /\ Head(inbox[c]).type \in FramingErrors
    /\ inbox' = [inbox EXCEPT ![c] = Tail(@)]
    /\ handler' = [handler EXCEPT ![c] = "finally"]
    /\ stop_event' = TRUE
    /\ UNCHANGED <<expected_workers, registration_timeout, stage_timeout, clients,
                   map_finished, reduce_results, start_map_sent, start_reduce_sent,
                   current_stage, registration_deadline, stage_deadlines>>
    /\ UNCHANGED <<coord_vars, sock, info_index, outbox, worker_vars, obs_vars>>
    /\ UNCHANGED unit_vars

\* _handle_client, lines 129-134, and recv_json, lines 42-50: recv_json returns
\* None on a truncated frame and the loop breaks; json.loads raises on a
\* payload that is not JSON and the exception leaves the loop.  Either way
\* the finally block is next, in this thread only.
HandleClientBadFrame(c) ==
    /\ handler[c] = "recv"
    /\ sock[c] \in {"open", "peer_closed"}
    /\ inbox[c] # <<>>
    /\ Head(inbox[c]).type \in FramingErrors
    /\ inbox' = [inbox EXCEPT ![c] = Tail(@)]
    /\ handler' = [handler EXCEPT ![c] = "finally"]
    /\ UNCHANGED <<master_vars, coord_vars, sock, info_index, outbox, worker_vars,
                   obs_vars>>
    /\ UNCHANGED unit_vars

\* Mutant of HandlerPop: a closed connection stays in the registry.
HandlerPopKeep(c) == clients

\* the registry after the finally block of _handle_client, lines 136-138
HandlerPop(c) ==
    IF info_index[c] # 0 THEN DictPop(clients, info_index[c]) ELSE clients

\* _handle_client, lines 129-139: the loop ends and the finally block runs.
\* recv_json returns None (or raises) when the worker closed the connection and
\* all its frames are read, or when the master closed or shut down the socket.
HandleClientExit(c) ==
    /\ \/ handler[c] = "finally"
       \/ /\ handler[c] = "recv"
          /\ \/ sock[c] = "closed"
             \/ sock[c] = "peer_closed" /\ inbox[c] = <<>>
    /\ sock' = [sock EXCEPT ![c] = "closed"]
    /\ inbox' = [inbox EXCEPT ![c] = <<>>]
    /\ clients' = HandlerPop(c)
    /\ handler' = [handler EXCEPT ![c] = "done"]
    /\ UNCHANGED <<expected_workers, registration_timeout, stage_timeout,
                   map_finished, reduce_results, start_map_sent, start_reduce_sent,
                   current_stage, stop_event, registration_deadline, stage_deadlines>>
    /\ UNCHANGED <<coord_vars, info_index, outbox, worker_vars, obs_vars>>
    /\ UNCHANGED unit_vars

\* ------------------------------------------------------ worker: control loop
\* _send_control: a frame written to a connection the master has closed is lost
SendControl(c, message) ==
    inbox' = [inbox EXCEPT ![c] = IF sock[c] = "open" THEN Append(@, message) ELSE @]

\* The word counts a worker holds when start_reduce arrives, when the shuffle
\* is not modelled.
AbstractCounts(i) == ("a" :> i)

Running(c) == worker[c] \in {"registered", "mapped", "reduced"}

\* start() of client.py, lines 72-73: a worker process starts, connects to the
\* master and sends register; the master's accept loop starts its handler.
StartWorker(c, i) ==
    /\ worker[c] = "none"
    /\ ~stop_event
    /\ coord_pc # "done"
    /\ worker' = [worker EXCEPT ![c] = "registered"]
    /\ worker_id' = [worker_id EXCEPT ![c] = i]
    /\ sock' = [sock EXCEPT ![c] = "open"]
    /\ handler' = [handler EXCEPT ![c] = "recv"]
    /\ inbox' = [inbox EXCEPT ![c] = <<RegisterMsg(i)>>]
    /\ UNCHANGED <<master_vars, coord_vars, info_index, outbox, shuffle_vars, obs_vars>>
    /\ UNCHANGED unit_vars

\* A worker process with any identifier starts; connections are numbered in the
\* order in which they are opened.
Connect(c, i) ==
    /\ \A d \in Conns : d < c => worker[d] # "none"
    /\ StartWorker(c, i)

\* _control_loop, lines 139-148, with the outcome of _run_map_stage left open
ControlStartMap(c) ==
    /\ Running(c)
    /\ outbox[c] # <<>>
    /\ Head(outbox[c]).type = "start_map"
    /\ outbox' = [outbox EXCEPT ![c] = Tail(@)]
    /\ \E status \in BOOLEAN : SendControl(c, MapFinishedMsg(worker_id[c], status))
    /\ worker' = [worker EXCEPT ![c] = "mapped"]
    /\ UNCHANGED <<master_vars, coord_vars, sock, handler, info_index, worker_id,
                   shuffle_vars, obs_vars>>
    /\ UNCHANGED unit_vars

\* _control_loop, lines 149-160, with the accumulator's content given;
\* _run_reduce_stage returns (None, error) when it raises
ControlStartReduce(c) ==
    /\ Running(c)
    /\ outbox[c] # <<>>
    /\ Head(outbox[c]).type = "start_reduce"
    /\ outbox' = [outbox EXCEPT ![c] = Tail(@)]
    /\ \/ SendControl(c, ReduceFinishedMsg(worker_id[c], TRUE,
                                           SortedItems(AbstractCounts(worker_id[c]))))
       \/ SendControl(c, ReduceFinishedMsg(worker_id[c], FALSE, <<>>))
    /\ worker' = [worker EXCEPT ![c] = "reduced"]
    /\ UNCHANGED <<master_vars, coord_vars, sock, handler, info_index, worker_id,
                   shuffle_vars, obs_vars>>
    /\ UNCHANGED unit_vars

\* start() of client.py, lines 76-81: the worker closes its end and exits
WorkerExit(c) ==
    /\ worker' = [worker EXCEPT ![c] = "exited"]
    /\ sock' = [sock EXCEPT ![c] = IF @ = "open" THEN "peer_closed" ELSE @]
    /\ outbox' = [outbox EXCEPT ![c] = <<>>]

\* Mutant of ControlShutdown: the shutdown message is read and the loop goes on.
ControlShutdownIgnored(c) ==
    /\ Running(c)
    /\ outbox[c] # <<>>
    /\ Head(outbox[c]).type = "shutdown"
    /\ outbox' = [outbox EXCEPT ![c] = Tail(@)]
    /\ UNCHANGED <<master_vars, coord_vars, sock, handler, info_index, inbox,
                   worker_vars, obs_vars>>
    /\ UNCHANGED unit_vars

\* _control_loop, lines 161-162
ControlShutdown(c) ==
    /\ Running(c)
    /\ outbox[c] # <<>>
    /\ Head(outbox[c]).type = "shutdown"
    /\ WorkerExit(c)
    /\ UNCHANGED <<master_vars, coord_vars, handler, info_index, inbox, worker_id,
                   shuffle_vars, obs_vars>>
    /\ UNCHANGED unit_vars

\* _control_loop, lines 135-137: _recv_control returns None
ControlEOF(c) ==
    /\ Running(c)
    /\ outbox[c] = <<>>
    /\ sock[c] = "closed"
    /\ WorkerExit(c)
    /\ UNCHANGED <<master_vars, coord_vars, handler, info_index, inbox, worker_id,
                   shuffle_vars, obs_vars>>
    /\ UNCHANGED unit_vars

\* the worker process is killed, or its host or network goes away
WorkerKilled(c) ==
    /\ Running(c)
    /\ sock[c] = "open"
    /\ WorkerExit(c)
    /\ UNCHANGED <<master_vars, coord_vars, handler, info_index, inbox, worker_id,
                   shuffle_vars, obs_vars>>
    /\ UNCHANGED unit_vars

\* ------------------------------------------------------------ specification
\* MasterServer.__init__
MasterInit ==
    /\ clients = EmptyDict
    /\ map_finished = EmptyDict
    /\ reduce_results = EmptyDict
    /\ start_map_sent = FALSE
    /\ start_reduce_sent = FALSE
    /\ current_stage = "registration"
    /\ stop_event = FALSE
    /\ registration_deadline = DeadlineFromTimeout(registration_timeout)
    /\ stage_deadlines = [map |-> "none", reduce |-> "none"]
    /\ coord_pc = "locked"
    /\ payload = NoPayload
    /\ clients_snapshot = {}
    /\ failed = {}
    /\ post_action = "none"
    /\ final_counts = [printed |-> 0, counts |-> EmptyDict]

\* MapReduceClient.__init__, lines 59-65, before start()
MapIdle(connections) ==
    /\ listener = [c \in connections |-> "none"]
    /\ pending_frames = [c \in connections |-> <<>>]
    /\ outgoing_sockets = [c \in connections |-> {}]
    /\ map_input = [c \in connections |-> <<>>]
    /\ map_status = [c \in connections |-> "none"]
    /\ flush_threshold = [c \in connections |-> DefaultFlushThreshold]
    /\ peer_up = [c \in connections |-> {}]
    /\ connect_attempts = [c \in connections |-> EmptyDict]

\* a stream that nothing has been written to
StreamIdle ==
    /\ wire = <<>>
    /\ wire_closed = FALSE
    /\ written = <<>>
    /\ written_cut = FALSE
    /\ rd_pc = "header"
    /\ rd_buf = <<>>
    /\ rd_size = 0
    /\ delivered = <<>>

\* The split files of the three workers, as the words _iter_words yields.
JobSplits == << <<"a", "a", "b">>, <<"b", "c">>, <<"c", "c", "a">> >>

\* len(self.hosts)
NumHosts == Len(JobSplits)

JobConns == 1..NumHosts

\* MapReduceClient.__init__, lines 42 and 56: the default hash, no call made
HashIdle(connections) ==
    /\ hash_name = [c \in connections |-> "crc32"]
    /\ hosts_len = [c \in connections |-> NumHosts]
    /\ hash_calls = {}

\* a map stage that has not looked at its split
ChunkIdle ==
    /\ offsets = <<>>
    /\ chunk_pc = "input"
    /\ chunk_next = 1
    /\ chunk_counts = EmptyDict
    /\ use_parallel = FALSE

\* no sender, no stream
\* no peer has connected to the shuffle port, no handler thread exists
InboundIdle(connections) ==
    /\ inbound = [c \in connections |-> [src \in connections |-> "none"]]
    /\ consumers = [c \in connections |-> [src \in connections |-> "none"]]
    /\ unsent = <<>>

WireIdle(connections) ==
    /\ MapIdle(connections)
    /\ InboundIdle(connections)
    /\ StreamIdle
    /\ outcomes = {}
    /\ streams = 1

UnitIdle(connections) ==
    /\ WireIdle(connections)
    /\ HashIdle(connections)
    /\ ChunkIdle
    /\ file = <<>>
    /\ map_workers = 1

\* no connection has been made, no worker launched
ConnIdle(connections) ==
    /\ sock = [c \in connections |-> "none"]
    /\ handler = [c \in connections |-> "none"]
    /\ info_index = [c \in connections |-> 0]
    /\ inbox = [c \in connections |-> <<>>]
    /\ outbox = [c \in connections |-> <<>>]
    /\ worker = [c \in connections |-> "none"]
    /\ worker_id = [c \in connections |-> 0]
    /\ incoming_counts = [c \in connections |-> EmptyDict]
    /\ shuffle = [src \in connections |-> [dst \in connections |-> <<>>]]
    /\ sent = [start_map |-> 0, start_reduce |-> 0, shutdown |-> 0, reason |-> "none"]
    /\ failure_reported = FALSE

ConnInit(connections) ==
    /\ UnitIdle(connections)
    /\ ConnIdle(connections)

Init ==
    /\ expected_workers \in 1..MaxExpected
    /\ registration_timeout \in BOOLEAN
    /\ stage_timeout \in BOOLEAN
    /\ MasterInit
    /\ ConnInit(Conns)

Next ==
    \/ Tick
    \/ CoordinateTimeout
    \/ CoordinateStartMap
    \/ CoordinateStartReduce
    \/ CoordinateShutdown
    \/ BroadcastSend
    \/ BroadcastEnd
    \/ \E c \in Conns :
          \/ HandleClient(c)
          \/ HandleClientExit(c)
          \/ \E i \in Indices : Connect(c, i)
          \/ ControlStartMap(c)
          \/ ControlStartReduce(c)
          \/ ControlShutdown(c)
          \/ ControlEOF(c)
          \/ WorkerKilled(c)

Spec == Init /\ [][Next]_vars

\* ------------------------------------------------- the word-count scenario
\* One half of a 32-bit value
HalfWord == 2^16

\* _hash_value with hash_name "crc32": zlib.crc32 of the encoded word, as its
\* upper and lower 16 bits
HashValue(word) ==
    CASE word = "a" -> [hi |-> 59575, lo |-> 48707]
      [] word = "b" -> [hi |-> 29118, lo |-> 61433]
      [] word = "c" -> [hi |-> 1721, lo |-> 57199]

\* _hash_to_index: value % len(self.hosts), where value = hi * 2^16 + lo
HashToIndex(word) ==
    (((HashValue(word).hi % NumHosts) * (HalfWord % NumHosts))
        + (HashValue(word).lo % NumHosts)) % NumHosts

\* main(): machine_index = worker_id - 1
MachineIndex(c) == worker_id[c] - 1

\* The words of worker c's split that hash to a destination, in file order.
WordsFor(c, destination) ==
    SelectSeq(JobSplits[worker_id[c]], LAMBDA word : HashToIndex(word) = destination)

\* _send_count on the local destination (or _consume_shuffle_stream on a
\* stream), once per word
RECURSIVE AddWords(_, _)
AddWords(counter, words) ==
    IF words = <<>> THEN counter
    ELSE AddWords(CounterAdd(counter, Head(words), 1), Tail(words))

\* _control_loop, lines 139-148, with _run_map_stage on an existing split and
\* one map process: the accumulator is emptied, then every word goes to the
\* accumulator or, framed, to the stream of the worker it hashes to; the
\* streams are flushed before map_finished is sent.
MapStage(c) ==
    /\ Running(c)
    /\ outbox[c] # <<>>
    /\ Head(outbox[c]).type = "start_map"
    /\ outbox' = [outbox EXCEPT ![c] = Tail(@)]
    /\ incoming_counts' =
          [incoming_counts EXCEPT ![c] = AddWords(EmptyDict, WordsFor(c, MachineIndex(c)))]
    /\ shuffle' = [shuffle EXCEPT ![c] =
          [dst \in DOMAIN @ |->
              IF worker_id[dst] = worker_id[c] THEN @[dst]
              ELSE @[dst] \o FramesOf(WordsFor(c, MachineIndex(dst)))]]
    /\ SendControl(c, MapFinishedMsg(worker_id[c], TRUE))
    /\ worker' = [worker EXCEPT ![c] = "mapped"]
    /\ UNCHANGED <<master_vars, coord_vars, sock, handler, info_index, worker_id,
                   obs_vars>>
    /\ UNCHANGED unit_vars

\* _consume_shuffle_stream: one whole frame of the stream from src, with a
\* payload that is not empty, is read and counted
ShuffleRecv(src, dst) ==
    /\ worker[dst] \notin {"none", "exited"}
    /\ Len(shuffle[src][dst]) >= HeaderLen
    /\ LET stream == shuffle[src][dst]
           size == Unpack(SubSeq(stream, 1, HeaderLen))
           data == SubSeq(stream, HeaderLen + 1, HeaderLen + size)
       IN  /\ size > 0
           /\ Len(stream) >= HeaderLen + size
           /\ incoming_counts' =
                 [incoming_counts EXCEPT ![dst] = CounterAdd(@, Decode(data), 1)]
           /\ shuffle' = [shuffle EXCEPT ![src][dst] =
                 SubSeq(stream, HeaderLen + size + 1, Len(stream))]
    /\ UNCHANGED <<master_vars, coord_vars, conn_vars, worker, worker_id, obs_vars>>
    /\ UNCHANGED unit_vars

\* Mutant of ReduceStage: the accumulator is emptied once the snapshot is taken.
ReduceStageDrain(c) ==
    /\ Running(c)
    /\ outbox[c] # <<>>
    /\ Head(outbox[c]).type = "start_reduce"
    /\ outbox' = [outbox EXCEPT ![c] = Tail(@)]
    /\ SendControl(c, ReduceFinishedMsg(worker_id[c], TRUE,
                                        SortedItems(incoming_counts[c])))
    /\ worker' = [worker EXCEPT ![c] = "reduced"]
    /\ incoming_counts' = [incoming_counts EXCEPT ![c] = EmptyDict]
    /\ UNCHANGED <<master_vars, coord_vars, sock, handler, info_index, worker_id,
                   shuffle, obs_vars>>
    /\ UNCHANGED unit_vars

\* _control_loop, lines 149-160, with _run_reduce_stage: the sorted snapshot of
\* the accumulator is reported
ReduceStage(c) ==
    /\ Running(c)
    /\ outbox[c] # <<>>
    /\ Head(outbox[c]).type = "start_reduce"
    /\ outbox' = [outbox EXCEPT ![c] = Tail(@)]
    /\ SendControl(c, ReduceFinishedMsg(worker_id[c], TRUE,
                                        SortedItems(incoming_counts[c])))
    /\ worker' = [worker EXCEPT ![c] = "reduced"]
    /\ UNCHANGED <<master_vars, coord_vars, sock, handler, info_index, worker_id,
                   shuffle_vars, obs_vars>>
    /\ UNCHANGED unit_vars

\* Three workers, one per split, a master that waits for three, no deadline.
JobInit ==
    /\ expected_workers = NumHosts
    /\ registration_timeout = FALSE
    /\ stage_timeout = FALSE
    /\ MasterInit
    /\ ConnInit(JobConns)

JobNext ==
    \/ CoordinateStartMap
    \/ CoordinateStartReduce
    \/ CoordinateShutdown
    \/ BroadcastSend
    \/ BroadcastEnd
    \/ \E c \in JobConns :
          \/ HandleClient(c)
          \/ HandleClientExit(c)
          \/ StartWorker(c, c)
          \/ MapStage(c)
          \/ ReduceStage(c)
          \/ ControlShutdown(c)
          \/ \E src \in JobConns : ShuffleRecv(src, c)

SpecJob == JobInit /\ [][JobNext]_vars

\* C5: with the splits "a a b", "b c" and "c c a" on three workers and no
\* failure, the result the master prints is a:3, b:2, c:3 in every
\* interleaving of the deliveries.
C5_ScenarioCounts ==
    final_counts.printed > 0 =>
        final_counts.counts = ("a" :> 3) @@ ("b" :> 2) @@ ("c" :> 3)

\* --------------------------------------------- one worker, thread by thread
\* The destinations of the shuffle: indices into self.hosts
Destinations == 0..(NumHosts - 1)

\* start(), line 72, for a worker with identifier c: _start_shuffle_listener
\* creates and starts the listener thread and returns.  The constructor's
\* flush threshold and the peers that can be reached are given.
WorkerLaunch(c) ==
    /\ \A d \in JobConns : worker[d] = "none"
    /\ worker' = [worker EXCEPT ![c] = "launched"]
    /\ worker_id' = [worker_id EXCEPT ![c] = c]
    /\ listener' = [listener EXCEPT ![c] = "started"]
    /\ \E threshold \in {0, DefaultFlushThreshold} :
          flush_threshold' = [flush_threshold EXCEPT ![c] = threshold]
    /\ \E up \in SUBSET Destinations : peer_up' = [peer_up EXCEPT ![c] = up]
    /\ UNCHANGED <<master_vars, coord_vars, conn_vars, shuffle_vars, obs_vars>>
    /\ UNCHANGED <<pending_frames, outgoing_sockets, map_input, map_status,
                   connect_attempts>>
    /\ UNCHANGED pure_vars

\* run_listener, lines 88-91: the listener thread binds the shuffle port and
\* listens
ListenerBind(c) ==
    /\ listener[c] = "started"
    /\ worker[c] # "exited"
    /\ listener' = [listener EXCEPT ![c] = "listening"]
    /\ UNCHANGED <<master_vars, coord_vars, conn_vars, worker_vars, obs_vars>>
    /\ UNCHANGED <<pending_frames, outgoing_sockets, map_input, map_status,
                   flush_threshold, peer_up, connect_attempts>>
    /\ UNCHANGED pure_vars

\* start(), line 73: _connect_master connects and sends register
WorkerRegister(c) ==
    /\ worker[c] = "launched"
    /\ ~stop_event
    /\ coord_pc # "done"
    /\ worker' = [worker EXCEPT ![c] = "registered"]
    /\ sock' = [sock EXCEPT ![c] = "open"]
    /\ handler' = [handler EXCEPT ![c] = "recv"]
    /\ inbox' = [inbox EXCEPT ![c] = <<RegisterMsg(worker_id[c])>>]
    /\ UNCHANGED <<master_vars, coord_vars, info_index, outbox, worker_id,
                   shuffle_vars, obs_vars>>
    /\ UNCHANGED unit_vars

\* self._pending_frames as the sequence of its (destination, buffer) entries
PendingDests(pending) == {pending[k].dest : k \in DOMAIN pending}

\* self._pending_frames.get(destination), an absent buffer read as empty
PendingBuf(pending, destination) ==
    IF destination \in PendingDests(pending)
    THEN pending[CHOOSE k \in DOMAIN pending : pending[k].dest = destination].buf
    ELSE <<>>

\* self._pending_frames.setdefault(destination, bytearray()).extend(data)
PendingExtend(pending, destination, data) ==
    IF destination \in PendingDests(pending)
    THEN [k \in DOMAIN pending |->
             IF pending[k].dest = destination
             THEN [dest |-> destination, buf |-> pending[k].buf \o data]
             ELSE pending[k]]
    ELSE Append(pending, [dest |-> destination, buf |-> data])

\* buffer.clear()
PendingClear(pending, destination) ==
    [k \in DOMAIN pending |->
        IF pending[k].dest = destination
        THEN [dest |-> destination, buf |-> <<>>]
        ELSE pending[k]]

\* self._pending_frames.pop(destination, None) for every given destination
PendingPop(pending, destinations) ==
    SelectSeq(pending, LAMBDA entry : entry.dest \notin destinations)

\* frame * count
RECURSIVE Repeat(_, _)
Repeat(data, count) == IF count <= 0 THEN <<>> ELSE data \o Repeat(data, count - 1)

\* _get_outgoing_socket, line 393: range(5)
MaxConnectAttempts == 5

\* the attempts counted for a destination
Attempts(tries, destination) ==
    IF destination \in DOMAIN tries THEN tries[destination] ELSE 0

\* What the sending side of worker c holds: its accumulator, its buffers, its
\* cached sockets, the bytes it has written to each destination during the
\* current step, whether an exception is on its way up, and the connection
\* attempts it has made.
SenderState(c) ==
    [counts |-> incoming_counts[c], pending |-> pending_frames[c],
     socks |-> outgoing_sockets[c], out |-> [d \in Destinations |-> <<>>],
     raised |-> FALSE, tries |-> connect_attempts[c]]

\* Mutant of FlushOutgoing: the buffer is not cleared after sendall.
FlushOutgoingKeep(st, up, destination) ==
    LET buffer == PendingBuf(st.pending, destination)
    IN  IF buffer = <<>> THEN st
        ELSE IF destination \notin st.socks /\ destination \notin up
        THEN [st EXCEPT !.raised = TRUE]
        ELSE [st EXCEPT !.socks = @ \cup {destination},
                        !.out[destination] = @ \o buffer]

\* _flush_outgoing with _get_outgoing_socket: nothing to do on an empty buffer;
\* a destination without a cached socket is connected to, which raises OSError
\* after five attempts when the peer is not up; sendall, then buffer.clear()
FlushOutgoing(st, up, destination) ==
    LET buffer == PendingBuf(st.pending, destination)
        tried == Attempts(st.tries, destination)
    IN  IF buffer = <<>> THEN st
        ELSE IF destination \in st.socks
        THEN [st EXCEPT !.out[destination] = @ \o buffer,
                        !.pending = PendingClear(@, destination)]
        ELSE IF destination \notin up
        THEN [st EXCEPT !.raised = TRUE,
                        !.tries = DictSet(@, destination, tried + MaxConnectAttempts)]
        ELSE [st EXCEPT !.socks = @ \cup {destination},
                        !.tries = DictSet(@, destination, tried + 1),
                        !.out[destination] = @ \o buffer,
                        !.pending = PendingClear(@, destination)]

\* _flush_all_outgoing over list(self._pending_frames.keys()), given as the
\* positions still to visit
RECURSIVE FlushAllFrom(_, _, _)
FlushAllFrom(st, up, k) ==
    IF st.raised \/ k > Len(st.pending) THEN st
    ELSE FlushAllFrom(FlushOutgoing(st, up, st.pending[k].dest), up, k + 1)

FlushAllOutgoing(st, up) == FlushAllFrom(st, up, 1)

\* _close_outgoing: flush, then shut down and close every cached socket and
\* drop its buffer
CloseOutgoing(st, up) ==
    LET flushed == FlushAllOutgoing(st, up)
    IN  IF flushed.raised THEN flushed
        ELSE [flushed EXCEPT !.pending = PendingPop(@, flushed.socks), !.socks = {}]

\* Mutant of IsLocal: no destination is taken for the worker itself.
IsLocalNever(c, destination) == FALSE

\* _send_count, line 374: destination == self.machine_index
IsLocal(c, destination) == destination = MachineIndex(c)

\* Mutant of SendCount: a frame is only buffered; the buffers are written at
\* the end of the map stage.
SendCountLazy(st, c, destination, word, count) ==
    IF count <= 0 THEN st
    ELSE IF IsLocal(c, destination)
    THEN [st EXCEPT !.counts = CounterAdd(@, word, count)]
    ELSE [st EXCEPT !.pending =
             PendingExtend(@, destination, Repeat(Frame(Encode(word)), count))]

\* _send_count
SendCount(st, c, destination, word, count) ==
    IF count <= 0 THEN st
    ELSE IF IsLocal(c, destination)
    THEN [st EXCEPT !.counts = CounterAdd(@, word, count)]
    ELSE LET buffered == [st EXCEPT !.pending =
                 PendingExtend(@, destination, Repeat(Frame(Encode(word)), count))]
         IN  IF \/ flush_threshold[c] = 0
                \/ Len(PendingBuf(buffered.pending, destination)) >= flush_threshold[c]
             THEN FlushOutgoing(buffered, peer_up[c], destination)
             ELSE buffered

\* _send_word
SendWord(st, c, destination, word) == SendCount(st, c, destination, word, 1)

\* The sending side of worker c after a step; the bytes written go to the
\* stream of the worker each destination stands for (machine_index =
\* worker_id - 1).
SenderNext(c, st) ==
    /\ incoming_counts' = [incoming_counts EXCEPT ![c] = st.counts]
    /\ pending_frames' = [pending_frames EXCEPT ![c] = st.pending]
    /\ outgoing_sockets' = [outgoing_sockets EXCEPT ![c] = st.socks]
    /\ connect_attempts' = [connect_attempts EXCEPT ![c] = st.tries]
    /\ shuffle' = [shuffle EXCEPT ![c] =
          [dst \in DOMAIN @ |-> @[dst] \o st.out[dst - 1]]]

MaxSplitLen == 2

\* The word sequences a split file can hold.
SplitInputs == UNION {[1..n -> Words] : n \in 0..MaxSplitLen}

\* _control_loop, line 139, and _run_map_stage, lines 171-183: start_map is
\* read, the accumulator is emptied, and the split file is looked for; a
\* missing file raises FileNotFoundError, which the except clause catches.
MapBegin(c) ==
    /\ Running(c)
    /\ outbox[c] # <<>>
    /\ Head(outbox[c]).type = "start_map"
    /\ outbox' = [outbox EXCEPT ![c] = Tail(@)]
    /\ incoming_counts' = [incoming_counts EXCEPT ![c] = EmptyDict]
    /\ \/ /\ \E words \in SplitInputs : map_input' = [map_input EXCEPT ![c] = words]
          /\ map_status' = [map_status EXCEPT ![c] = "none"]
          /\ worker' = [worker EXCEPT ![c] = "map_body"]
       \/ /\ map_status' = [map_status EXCEPT ![c] = "error"]
          /\ worker' = [worker EXCEPT ![c] = "map_finally"]
          /\ UNCHANGED map_input
    /\ UNCHANGED <<master_vars, coord_vars, sock, handler, info_index, inbox,
                   worker_id, shuffle, obs_vars>>
    /\ UNCHANGED <<listener, pending_frames, outgoing_sockets, flush_threshold,
                   peer_up, connect_attempts>>
    /\ UNCHANGED pure_vars

\* _run_map_stage, lines 235-237: one word of the split is routed.  An OSError
\* of the flush is caught by the except clause.
MapWord(c) ==
    /\ worker[c] = "map_body"
    /\ map_input[c] # <<>>
    /\ LET word == Head(map_input[c])
           st == SendWord(SenderState(c), c, HashToIndex(word), word)
       IN  /\ SenderNext(c, st)
           /\ IF st.raised
              THEN /\ map_status' = [map_status EXCEPT ![c] = "error"]
                   /\ worker' = [worker EXCEPT ![c] = "map_finally"]
              ELSE UNCHANGED <<map_status, worker>>
    /\ map_input' = [map_input EXCEPT ![c] = Tail(@)]
    /\ UNCHANGED <<master_vars, coord_vars, conn_vars, worker_id, obs_vars>>
    /\ UNCHANGED <<listener, flush_threshold, peer_up>>
    /\ UNCHANGED pure_vars

\* _iter_words raises while reading a line (UnicodeDecodeError); the except
\* clause catches it
MapDecodeError(c) ==
    /\ worker[c] = "map_body"
    /\ map_status' = [map_status EXCEPT ![c] = "error"]
    /\ worker' = [worker EXCEPT ![c] = "map_finally"]
    /\ UNCHANGED <<master_vars, coord_vars, conn_vars, worker_id, shuffle_vars,
                   obs_vars>>
    /\ UNCHANGED <<listener, pending_frames, outgoing_sockets, map_input,
                   flush_threshold, peer_up, connect_attempts>>
    /\ UNCHANGED pure_vars

\* _run_map_stage, line 238: the split is exhausted, return True, None
MapBodyEnd(c) ==
    /\ worker[c] = "map_body"
    /\ map_input[c] = <<>>
    /\ map_status' = [map_status EXCEPT ![c] = "ok"]
    /\ worker' = [worker EXCEPT ![c] = "map_finally"]
    /\ UNCHANGED <<master_vars, coord_vars, conn_vars, worker_id, shuffle_vars,
                   obs_vars>>
    /\ UNCHANGED <<listener, pending_frames, outgoing_sockets, map_input,
                   flush_threshold, peer_up, connect_attempts>>
    /\ UNCHANGED pure_vars

\* _run_map_stage, lines 241-243, and _control_loop, lines 140-148: the finally
\* clause flushes and closes the outgoing side, then map_finished is sent.  An
\* OSError raised in the finally clause is caught nowhere in _run_map_stage or
\* _control_loop: it ends start() (whose own finally clause raises it again in
\* _close_outgoing) and __main__ exits the process.
MapFinally(c) ==
    /\ worker[c] = "map_finally"
    /\ LET flushed == FlushAllOutgoing(SenderState(c), peer_up[c])
           closed == CloseOutgoing(flushed, peer_up[c])
       IN  IF flushed.raised
           THEN /\ SenderNext(c, flushed)
                /\ map_status' = [map_status EXCEPT ![c] = "raised"]
                /\ WorkerExit(c)
                /\ UNCHANGED inbox
           ELSE /\ SenderNext(c, closed)
                /\ SendControl(c, MapFinishedMsg(worker_id[c], map_status[c] = "ok"))
                /\ worker' = [worker EXCEPT ![c] = "mapped"]
                /\ UNCHANGED <<map_status, sock, outbox>>
    /\ UNCHANGED <<master_vars, coord_vars, handler, info_index, worker_id, obs_vars>>
    /\ UNCHANGED <<listener, map_input, flush_threshold, peer_up>>
    /\ UNCHANGED pure_vars

\* One worker of three hosts and a master that waits for one worker, without
\* deadlines.
WorkerInit ==
    /\ expected_workers = 1
    /\ registration_timeout = FALSE
    /\ stage_timeout = FALSE
    /\ MasterInit
    /\ ConnInit(JobConns)

WorkerNext ==
    \/ CoordinateStartMap
    \/ CoordinateStartReduce
    \/ CoordinateShutdown
    \/ BroadcastSend
    \/ BroadcastEnd
    \/ \E c \in JobConns :
          \/ HandleClient(c)
          \/ HandleClientExit(c)
          \/ WorkerLaunch(c)
          \/ ListenerBind(c)
          \/ WorkerRegister(c)
          \/ MapBegin(c)
          \/ MapWord(c)
          \/ MapDecodeError(c)
          \/ MapBodyEnd(c)
          \/ MapFinally(c)
          \/ ReduceStage(c)
          \/ ControlShutdown(c)

SpecWorker == WorkerInit /\ [][WorkerNext]_vars

\* ---------------------------------------- one worker: the end of its threads
\* start(), line 77: the first statement of the finally clause sets the
\* shutdown event; the worker is "exited" from then on.
ShutdownEventSet(c) == worker[c] = "exited"

\* the processes that connect to the shuffle port of worker c
Peers(c) == JobConns \ {c}

MaxInboundCount == 1

\* run_listener, lines 94-104: accept returns the connection of a peer (the
\* connection of _poke_listener included) and the thread of
\* _consume_shuffle_stream is started for it
ListenerAccept(c, src) ==
    /\ listener[c] = "listening"
    /\ src \in Peers(c)
    /\ inbound[c][src] = "none"
    /\ inbound' = [inbound EXCEPT ![c][src] = "open"]
    /\ consumers' = [consumers EXCEPT ![c][src] = "head"]
    /\ UNCHANGED <<net_vars, map_vars, stream_vars, chunk_vars, hash_vars, unsent>>

\* run_listener, line 94: the loop condition is read with the event set (after
\* accept returned or timed out), and the thread ends
ListenerExit(c) ==
    /\ listener[c] \in {"started", "listening"}
    /\ ShutdownEventSet(c)
    /\ listener' = [listener EXCEPT ![c] = "done"]
    /\ UNCHANGED <<pending_frames, outgoing_sockets, map_input, map_status,
                   flush_threshold, peer_up, connect_attempts>>
    /\ UNCHANGED <<net_vars, pure_vars>>

\* a peer writes a frame to its connection to worker c
PeerWrites(src, c) ==
    /\ inbound[c][src] = "open"
    /\ shuffle[src][c] = <<>>
    /\ (IF "a" \in DOMAIN incoming_counts[c] THEN incoming_counts[c]["a"] ELSE 0)
          < MaxInboundCount
    /\ shuffle' = [shuffle EXCEPT ![src][c] = Frame(Encode("a"))]
    /\ UNCHANGED <<master_vars, coord_vars, conn_vars, worker, worker_id,
                   incoming_counts, obs_vars>>
    /\ UNCHANGED unit_vars

\* a peer closes its connection to worker c
PeerCloses(src, c) ==
    /\ inbound[c][src] = "open"
    /\ inbound' = [inbound EXCEPT ![c][src] = "closed"]
    /\ UNCHANGED consumers
    /\ UNCHANGED <<net_vars, map_vars, stream_vars, chunk_vars, hash_vars, unsent>>

\* _consume_shuffle_stream, line 438: while not self._shutdown_event.is_set()
ConsumerHead(c, src) ==
    /\ consumers[c][src] = "head"
    /\ consumers' = [consumers EXCEPT ![c][src] =
          IF ShutdownEventSet(c) THEN "done" ELSE "recv"]
    /\ UNCHANGED inbound
    /\ UNCHANGED <<net_vars, map_vars, stream_vars, chunk_vars, hash_vars, unsent>>

\* _consume_shuffle_stream, lines 440-455: a whole frame is read, its word is
\* counted and the loop goes back to its head
ConsumerRecv(c, src) ==
    /\ consumers[c][src] = "recv"
    /\ Len(shuffle[src][c]) >= HeaderLen
    /\ LET stream == shuffle[src][c]
           size == Unpack(SubSeq(stream, 1, HeaderLen))
           data == SubSeq(stream, HeaderLen + 1, HeaderLen + size)
       IN  /\ size > 0
           /\ Len(stream) >= HeaderLen + size
           /\ incoming_counts' =
                 [incoming_counts EXCEPT ![c] = CounterAdd(@, Decode(data), 1)]
           /\ shuffle' = [shuffle EXCEPT ![src][c] =
                 SubSeq(stream, HeaderLen + size + 1, Len(stream))]
    /\ consumers' = [consumers EXCEPT ![c][src] = "head"]
    /\ UNCHANGED inbound
    /\ UNCHANGED <<master_vars, coord_vars, conn_vars, worker, worker_id, obs_vars>>
    /\ UNCHANGED <<map_vars, stream_vars, chunk_vars, hash_vars, unsent>>

\* _consume_shuffle_stream, lines 447-450: nothing arrived for a second
\* (conn.settimeout(1.0)); break if the event is set, continue otherwise
ConsumerTimeout(c, src) ==
    /\ consumers[c][src] = "recv"
    /\ shuffle[src][c] = <<>>
    /\ inbound[c][src] = "open"
    /\ consumers' = [consumers EXCEPT ![c][src] =
          IF ShutdownEventSet(c) THEN "done" ELSE "head"]
    /\ UNCHANGED inbound
    /\ UNCHANGED <<net_vars, map_vars, stream_vars, chunk_vars, hash_vars, unsent>>

\* _consume_shuffle_stream, lines 441-442: _recv_exact returns None on a
\* connection the peer has closed
ConsumerEOF(c, src) ==
    /\ consumers[c][src] = "recv"
    /\ shuffle[src][c] = <<>>
    /\ inbound[c][src] = "closed"
    /\ consumers' = [consumers EXCEPT ![c][src] = "done"]
    /\ UNCHANGED inbound
    /\ UNCHANGED <<net_vars, map_vars, stream_vars, chunk_vars, hash_vars, unsent>>

\* main() with the default --flush-threshold, every peer reachable; the
\* worker is the first of the hosts
LaunchDefault(c) ==
    /\ c = 1
    /\ WorkerLaunch(c)
    /\ flush_threshold'[c] = DefaultFlushThreshold
    /\ peer_up'[c] = Destinations

\* worker c was started by start(): it has a listener thread
Launched(c) == listener[c] # "none"

\* another process connects to the master and registers with the identifier
\* of a worker that runs, then stays silent: the master closes the connection
\* of the first when the second registers
StartTwin(d) ==
    \E c \in JobConns :
        /\ Launched(c)
        /\ worker[c] # "exited"
        /\ \A e \in JobConns \ {c} : worker[e] = "none"
        /\ d = c + 1
        /\ StartWorker(d, worker_id[c])

\* One worker with its listener and its inbound handlers, and a master that
\* waits for one worker.
ShutdownNext ==
    \/ CoordinateStartMap
    \/ CoordinateStartReduce
    \/ CoordinateShutdown
    \/ BroadcastSend
    \/ BroadcastEnd
    \/ \E c \in JobConns :
          \/ HandleClient(c)
          \/ HandleClientExit(c)
          \/ LaunchDefault(c)
          \/ StartTwin(c)
          \/ ListenerBind(c)
          \/ WorkerRegister(c)
          \/ Launched(c) /\ ControlStartMap(c)
          \/ Launched(c) /\ ControlStartReduce(c)
          \/ Launched(c) /\ ControlShutdown(c)
          \/ Launched(c) /\ ControlEOF(c)
          \/ ListenerExit(c)
          \/ \E src \in JobConns :
                \/ ListenerAccept(c, src)
                \/ PeerWrites(src, c)
                \/ PeerCloses(src, c)
                \/ ConsumerHead(c, src)
                \/ ConsumerRecv(c, src)
                \/ ConsumerTimeout(c, src)
                \/ ConsumerEOF(c, src)

SpecShutdown == WorkerInit /\ [][ShutdownNext]_vars

\* The threads of a worker are scheduled fairly: the listener thread and each
\* handler thread take their next step, and a blocked recv returns or times
\* out.
FairShutdownSpec ==
    /\ SpecShutdown
    /\ \A c \in JobConns :
          /\ WF_vars(ListenerExit(c))
          /\ \A src \in JobConns :
                /\ WF_vars(ConsumerHead(c, src))
                /\ WF_vars(ConsumerRecv(c, src))
                /\ WF_vars(ConsumerTimeout(c, src))
                /\ WF_vars(ConsumerEOF(c, src))

\* --------------------------------------------- one stream of framed data
MaxPayloadLen == 1
MaxFrames == 2
MaxStreams == 2

\* The payloads written: byte strings, the empty one included.
Payloads ==
    UNION {[1..n -> {WordByte("a"), WordByte("b")}] : n \in 0..MaxPayloadLen}

\* send_json, _send_frame, _flush_outgoing: sendall of whole frames
StreamWrite(data) ==
    /\ ~wire_closed
    /\ Len(written) < MaxFrames
    /\ wire' = wire \o Frame(data)
    /\ written' = Append(written, data)
    /\ UNCHANGED <<wire_closed, written_cut, rd_pc, rd_buf, rd_size, delivered,
                   outcomes, streams>>
    /\ UNCHANGED <<net_vars, map_vars>>
    /\ UNCHANGED <<chunk_vars, hash_vars, inbound_vars>>

\* the writer's process or host goes away after k bytes of a frame
StreamWriteCut(data, k) ==
    /\ ~wire_closed
    /\ Len(written) < MaxFrames
    /\ k \in 1..(Len(Frame(data)) - 1)
    /\ wire' = wire \o SubSeq(Frame(data), 1, k)
    /\ wire_closed' = TRUE
    /\ written_cut' = TRUE
    /\ UNCHANGED <<written, rd_pc, rd_buf, rd_size, delivered, outcomes, streams>>
    /\ UNCHANGED <<net_vars, map_vars>>
    /\ UNCHANGED <<chunk_vars, hash_vars, inbound_vars>>

\* the writer closes its end after a whole frame
StreamClose ==
    /\ ~wire_closed
    /\ wire_closed' = TRUE
    /\ UNCHANGED <<wire, written, written_cut, rd_pc, rd_buf, rd_size, delivered,
                   outcomes, streams>>
    /\ UNCHANGED <<net_vars, map_vars>>
    /\ UNCHANGED <<chunk_vars, hash_vars, inbound_vars>>

\* What the frame reader returns when it has no payload to hand on: None of
\* recv_json and _recv_control, the break of _consume_shuffle_stream.
ReaderNone == "None"

\* recv_exact(sock, 0) returns b"" without reading, and "if not payload" takes
\* it for a closed connection.
ZeroLengthStops(size) == size = 0

\* One sock.recv of recv_exact / _recv_exact inside recv_json, _recv_control
\* or _consume_shuffle_stream: n bytes arrive.  A full length prefix gives the
\* size; a full payload is handed on and the reader starts the next frame.
StreamRecv(n) ==
    /\ rd_pc \in {"header", "payload"}
    /\ LET target == IF rd_pc = "header" THEN HeaderLen ELSE rd_size
           data == rd_buf \o SubSeq(wire, 1, n)
       IN  /\ n \in 1..(target - Len(rd_buf))
           /\ n <= Len(wire)
           /\ wire' = SubSeq(wire, n + 1, Len(wire))
           /\ IF Len(data) < target
              THEN /\ rd_buf' = data
                   /\ UNCHANGED <<rd_pc, rd_size, delivered, outcomes>>
              ELSE IF rd_pc = "payload"
              THEN /\ delivered' = Append(delivered, data)
                   /\ rd_pc' = "header"
                   /\ rd_buf' = <<>>
                   /\ UNCHANGED <<rd_size, outcomes>>
              ELSE IF ZeroLengthStops(Unpack(data))
              THEN /\ rd_pc' = "stopped"
                   /\ outcomes' = outcomes \cup
                         {[cause |-> "empty_frame", result |-> ReaderNone]}
                   /\ rd_buf' = <<>>
                   /\ UNCHANGED <<rd_size, delivered>>
              ELSE /\ rd_pc' = "payload"
                   /\ rd_size' = Unpack(data)
                   /\ rd_buf' = <<>>
                   /\ UNCHANGED <<delivered, outcomes>>
    /\ UNCHANGED <<wire_closed, written, written_cut, streams>>
    /\ UNCHANGED <<net_vars, map_vars>>
    /\ UNCHANGED <<chunk_vars, hash_vars, inbound_vars>>

\* sock.recv returns b"" on a closed connection: recv_exact returns None and so
\* does the frame reader, at a frame boundary as in the middle of a frame
StreamRecvEOF ==
    /\ rd_pc \in {"header", "payload"}
    /\ wire = <<>>
    /\ wire_closed
    /\ rd_pc' = "stopped"
    /\ outcomes' = outcomes \cup
          {[cause |-> IF rd_pc = "header" /\ rd_buf = <<>>
                      THEN "end_of_stream" ELSE "truncated",
            result |-> ReaderNone]}
    /\ UNCHANGED <<wire, wire_closed, written, written_cut, rd_buf, rd_size,
                   delivered, streams>>
    /\ UNCHANGED <<net_vars, map_vars>>
    /\ UNCHANGED <<chunk_vars, hash_vars, inbound_vars>>

\* _accept_loop / run_listener: the next connection gets a reader of its own
StreamReopen ==
    /\ rd_pc = "stopped"
    /\ streams < MaxStreams
    /\ streams' = streams + 1
    /\ wire' = <<>>
    /\ wire_closed' = FALSE
    /\ written' = <<>>
    /\ written_cut' = FALSE
    /\ rd_pc' = "header"
    /\ rd_buf' = <<>>
    /\ rd_size' = 0
    /\ delivered' = <<>>
    /\ UNCHANGED outcomes
    /\ UNCHANGED <<net_vars, map_vars>>
    /\ UNCHANGED <<chunk_vars, hash_vars, inbound_vars>>

StreamInit ==
    /\ expected_workers = 1
    /\ registration_timeout = FALSE
    /\ stage_timeout = FALSE
    /\ MasterInit
    /\ ConnInit(Conns)

StreamNext ==
    \/ \E data \in Payloads : StreamWrite(data)
    \/ \E data \in Payloads : \E k \in 1..(HeaderLen + MaxPayloadLen) :
          StreamWriteCut(data, k)
    \/ StreamClose
    \/ \E n \in 1..(HeaderLen + MaxPayloadLen) : StreamRecv(n)
    \/ StreamRecvEOF
    \/ StreamReopen

SpecStream == StreamInit /\ [][StreamNext]_vars

\* ------------------------------- one inbound shuffle stream, with timeouts
\* the peer's sendall has put the first k bytes of a frame on the stream; the
\* rest follows later
StreamWriteBegin(data, k) ==
    /\ ~wire_closed
    /\ unsent = <<>>
    /\ Len(written) < MaxFrames
    /\ k \in 1..(Len(Frame(data)) - 1)
    /\ wire' = wire \o SubSeq(Frame(data), 1, k)
    /\ unsent' = SubSeq(Frame(data), k + 1, Len(Frame(data)))
    /\ written' = Append(written, data)
    /\ UNCHANGED <<wire_closed, written_cut, rd_pc, rd_buf, rd_size, delivered,
                   outcomes, streams>>
    /\ UNCHANGED <<inbound, consumers>>
    /\ UNCHANGED <<net_vars, map_vars, chunk_vars, hash_vars>>

\* the rest of the frame is put on the stream
StreamWriteRest ==
    /\ unsent # <<>>
    /\ wire' = wire \o unsent
    /\ unsent' = <<>>
    /\ UNCHANGED <<wire_closed, written, written_cut, rd_pc, rd_buf, rd_size,
                   delivered, outcomes, streams>>
    /\ UNCHANGED <<inbound, consumers>>
    /\ UNCHANGED <<net_vars, map_vars, chunk_vars, hash_vars>>

\* _consume_shuffle_stream, lines 447-450, with conn.settimeout(1.0): recv
\* raises socket.timeout when nothing arrives for a second.  The exception
\* leaves _recv_exact, whose local data is lost, and the loop continues with
\* the length prefix of a new frame.
StreamTimeout ==
    /\ rd_pc \in {"header", "payload"}
    /\ wire = <<>>
    /\ ~wire_closed
    /\ rd_pc' = "header"
    /\ rd_buf' = <<>>
    /\ UNCHANGED <<wire, wire_closed, written, written_cut, rd_size, delivered,
                   outcomes, streams>>
    /\ UNCHANGED inbound_vars
    /\ UNCHANGED <<net_vars, map_vars, chunk_vars, hash_vars>>

\* The words a peer sends are not empty.
ConsumeNext ==
    \/ \E data \in Payloads \ {<<>>} : unsent = <<>> /\ StreamWrite(data)
    \/ \E data \in Payloads \ {<<>>} : \E k \in 1..(HeaderLen + MaxPayloadLen) :
          StreamWriteBegin(data, k)
    \/ StreamWriteRest
    \/ unsent = <<>> /\ StreamClose
    \/ \E n \in 1..(HeaderLen + MaxPayloadLen) : StreamRecv(n)
    \/ StreamRecvEOF
    \/ StreamTimeout

SpecConsume == StreamInit /\ [][ConsumeNext]_vars

\* ------------------------------------------- one split file, map by chunks
MaxFileLines == 3
MaxMapWorkers == 3

\* b"\n", the line terminator of readline on a file opened in binary mode
NL == 10

\* a space between two words
SP == 32

\* the padding of a long line
LongLine == 1023

\* the least size of a chunk for the map by chunks, line 197
MinChunkBytes == 1024

\* The lines of a split file, without their terminator: empty, one word of
\* one letter, or one word followed by spaces.
ChunkLines ==
    {<<>>} \cup {Encode(word) : word \in {"a", "b"}}
           \cup {Encode(word) \o [k \in 1..LongLine |-> SP] : word \in {"a", "b"}}

\* the lines one after the other, each with its terminator, the last one with
\* or without
RECURSIVE JoinLines(_, _)
JoinLines(lines, last_terminated) ==
    IF lines = <<>> THEN <<>>
    ELSE IF Len(lines) = 1 /\ ~last_terminated THEN Head(lines)
    ELSE Head(lines) \o <<NL>> \o JoinLines(Tail(lines), last_terminated)

ChunkFiles ==
    {JoinLines(lines, last_terminated) :
        lines \in UNION {[1..n -> ChunkLines] : n \in 0..MaxFileLines},
        last_terminated \in BOOLEAN}

Min(a, b) == IF a < b THEN a ELSE b
Max(a, b) == IF a > b THEN a ELSE b

\* handle.seek(pos); handle.readline(); handle.tell(): the offset after the
\* next terminator at or after pos, or the size of the file
ReadLineEnd(bytes, pos) ==
    LET terminators == {k \in (pos + 1)..Len(bytes) : bytes[k] = NL}
    IN  IF terminators = {} THEN Len(bytes)
        ELSE CHOOSE k \in terminators : \A j \in terminators : k <= j

\* _compute_chunk_offsets, lines 281-292: the loop over range(workers - 1)
RECURSIVE OffsetsLoop(_, _, _, _, _)
OffsetsLoop(bytes, chunk_size, start, rounds, found) ==
    LET size == Len(bytes)
        target == start + chunk_size
        end == ReadLineEnd(bytes, target)
    IN  IF rounds = 0 \/ target >= size \/ end <= start
        THEN Append(found, <<start, size>>)
        ELSE OffsetsLoop(bytes, chunk_size, end, rounds - 1,
                         Append(found, <<start, end>>))

\* _compute_chunk_offsets
ComputeChunkOffsets(bytes, workers) ==
    IF workers <= 1 \/ Len(bytes) = 0 THEN << <<0, Len(bytes)>> >>
    ELSE OffsetsLoop(bytes, Max(1, Len(bytes) \div workers), 0, workers - 1, <<>>)

\* WORD_RE.findall(text.lower()) on a line whose words have one letter: the
\* words in order
RECURSIVE Tokens(_)
Tokens(line) ==
    LET letters == {k \in 1..Len(line) : line[k] \notin {NL, SP}}
        first == CHOOSE k \in letters : \A j \in letters : k <= j
    IN  IF letters = {} THEN <<>>
        ELSE <<Decode(<<line[first]>>)>> \o Tokens(SubSeq(line, first + 1, Len(line)))

\* counters[destination][word] += 1 for every word of a sequence
RECURSIVE CountWords(_, _)
CountWords(counters, words) ==
    IF words = <<>> THEN counters
    ELSE LET word == Head(words)
             destination == HashToIndex(word)
             counter == IF destination \in DOMAIN counters
                        THEN counters[destination] ELSE EmptyDict
         IN  CountWords(DictSet(counters, destination, CounterAdd(counter, word, 1)),
                        Tail(words))

\* _process_chunk, lines 323-343: the loop over the lines from pos up to end
RECURSIVE ChunkLoop(_, _, _, _)
ChunkLoop(bytes, pos, end, counters) ==
    LET next == ReadLineEnd(bytes, pos)
        line == SubSeq(bytes, pos + 1, next)
    IN  IF pos >= end \/ line = <<>> THEN counters
        ELSE IF next > end /\ line[Len(line)] # NL THEN counters
        ELSE ChunkLoop(bytes, next, end, CountWords(counters, Tokens(line)))

\* _process_chunk
ProcessChunk(bytes, start, end) ==
    LET size == Len(bytes)
        start0 == Max(0, Min(start, size))
        end0 == Max(start0, Min(end, size))
        start1 == IF start0 > 0 /\ bytes[start0] # NL
                  THEN ReadLineEnd(bytes, start0) ELSE start0
        end1 == IF end0 < size THEN ReadLineEnd(bytes, end0) ELSE size
    IN  ChunkLoop(bytes, start1, end1, EmptyDict)

\* _iter_words: the words of every line of the file, in order
RECURSIVE IterWords(_, _)
IterWords(bytes, pos) ==
    LET next == ReadLineEnd(bytes, pos)
    IN  IF pos >= Len(bytes) THEN <<>>
        ELSE Tokens(SubSeq(bytes, pos + 1, next)) \o IterWords(bytes, next)

\* _run_map_stage, lines 235-237: every word of the file goes through
\* _send_word, that is _send_count with a count of 1
SequentialCounts(bytes) == CountWords(EmptyDict, IterWords(bytes, 0))

\* _run_map_stage, lines 231-234: every (destination, word, count) of a chunk
\* goes through _send_count
MergeCounts(total, counters) ==
    [d \in DOMAIN total \cup DOMAIN counters |->
        IF d \notin DOMAIN counters THEN total[d]
        ELSE IF d \notin DOMAIN total THEN counters[d]
        ELSE [w \in DOMAIN total[d] \cup DOMAIN counters[d] |->
                 (IF w \in DOMAIN total[d] THEN total[d][w] ELSE 0)
                 + (IF w \in DOMAIN counters[d] THEN counters[d][w] ELSE 0)]]

\* _compute_chunk_offsets called on a file and a number of workers
ComputeOffsetsCall ==
    /\ chunk_pc = "input"
    /\ offsets' = ComputeChunkOffsets(file, map_workers)
    /\ chunk_pc' = "offsets"
    /\ UNCHANGED <<file, map_workers, chunk_next, chunk_counts, use_parallel>>
    /\ UNCHANGED <<net_vars, map_vars, stream_vars, hash_vars, inbound_vars>>

\* _run_map_stage, lines 185-212: the choice between the map by chunks and
\* the map line by line (max_lines is None)
UseParallel(bytes, workers) ==
    /\ workers > 1
    /\ Len(bytes) # 0
    /\ Len(bytes) \div workers >= MinChunkBytes
    /\ Len(ComputeChunkOffsets(bytes, workers)) > 1

MapChoosePath ==
    /\ chunk_pc = "input"
    /\ use_parallel' = UseParallel(file, map_workers)
    /\ offsets' = IF map_workers > 1 /\ Len(file) # 0
                     /\ Len(file) \div map_workers >= MinChunkBytes
                  THEN ComputeChunkOffsets(file, map_workers) ELSE <<>>
    /\ chunk_pc' = IF use_parallel' THEN "chunks" ELSE "lines"
    /\ UNCHANGED <<file, map_workers, chunk_next, chunk_counts>>
    /\ UNCHANGED <<net_vars, map_vars, stream_vars, hash_vars, inbound_vars>>

\* _run_map_stage, lines 215-233: the result of the next future, merged; a
\* chunk with start >= end was not submitted
MapChunkResult ==
    /\ chunk_pc = "chunks"
    /\ chunk_next <= Len(offsets)
    /\ LET start == offsets[chunk_next][1]
           end == offsets[chunk_next][2]
       IN  chunk_counts' = IF start < end
                           THEN MergeCounts(chunk_counts, ProcessChunk(file, start, end))
                           ELSE chunk_counts
    /\ chunk_next' = chunk_next + 1
    /\ UNCHANGED <<file, map_workers, offsets, chunk_pc, use_parallel>>
    /\ UNCHANGED <<net_vars, map_vars, stream_vars, hash_vars, inbound_vars>>

\* every future has been collected
MapChunksEnd ==
    /\ chunk_pc = "chunks"
    /\ chunk_next > Len(offsets)
    /\ chunk_pc' = "done"
    /\ UNCHANGED <<file, map_workers, offsets, chunk_next, chunk_counts, use_parallel>>
    /\ UNCHANGED <<net_vars, map_vars, stream_vars, hash_vars, inbound_vars>>

\* _run_map_stage, lines 235-237
MapLines ==
    /\ chunk_pc = "lines"
    /\ chunk_counts' = SequentialCounts(file)
    /\ chunk_pc' = "done"
    /\ UNCHANGED <<file, map_workers, offsets, chunk_next, use_parallel>>
    /\ UNCHANGED <<net_vars, map_vars, stream_vars, hash_vars, inbound_vars>>

ChunkInit ==
    /\ expected_workers = 1
    /\ registration_timeout = FALSE
    /\ stage_timeout = FALSE
    /\ MasterInit
    /\ ConnIdle(Conns)
    /\ WireIdle(Conns)
    /\ HashIdle(Conns)
    /\ ChunkIdle
    /\ file \in ChunkFiles
    /\ map_workers \in 1..MaxMapWorkers

ChunkNext ==
    \/ ComputeOffsetsCall
    \/ MapChoosePath
    \/ MapChunkResult
    \/ MapChunksEnd
    \/ MapLines

SpecChunk == ChunkInit /\ [][ChunkNext]_vars

\* ------------------------------------------------- the hash partition alone
MaxHosts == 4

HashNames == {"crc32", "md5", "blake2s"}

\* _hash_value, lines 353-361: the value as its 16-bit digits, the most
\* significant first (zlib.crc32 & 0xFFFFFFFF, or int.from_bytes(digest, "big")
\* of hashlib.md5 and hashlib.blake2s)
HashDigits(word, name) ==
    CASE name = "crc32" -> <<HashValue(word).hi, HashValue(word).lo>>
      [] name = "md5" /\ word = "a" ->
            <<3265, 30137, 49393, 46760, 12739, 39394, 26999, 9825>>
      [] name = "md5" /\ word = "b" ->
            <<37611, 24574, 59054, 12268, 15063, 7287, 30001, 22415>>
      [] name = "md5" /\ word = "c" ->
            <<19082, 2288, 40247, 46903, 38244, 36920, 16523, 24371>>
      [] name = "blake2s" /\ word = "a" ->
            <<18957, 4760, 29504, 12343, 49869, 39824, 18464, 13959,
              63011, 16310, 29577, 22240, 13467, 54322, 4076, 16016>>
      [] name = "blake2s" /\ word = "b" ->
            <<1092, 40594, 51623, 25982, 62166, 30648, 61341, 42092,
              2191, 4951, 24232, 34788, 33167, 50261, 41660, 42240>>
      [] name = "blake2s" /\ word = "c" ->
            <<63257, 1392, 45278, 55371, 6924, 7030, 16187, 51098,
              31068, 64839, 19485, 22956, 30305, 48522, 14737, 10333>>

\* value % n for a value given by its 16-bit digits
RECURSIVE DigitsMod(_, _)
DigitsMod(digits, n) ==
    IF digits = <<>> THEN 0
    ELSE LET k == Len(digits)
         IN  (DigitsMod(SubSeq(digits, 1, k - 1), n) * (HalfWord % n) + digits[k]) % n

\* Mutant of HashToIndexOn: the value depends on the process, as the built-in
\* hash of a string does.
HashToIndexSalted(c, word) ==
    (DigitsMod(HashDigits(word, hash_name[c]), hosts_len[c]) + c) % hosts_len[c]

\* _hash_to_index on the worker object of connection c
HashToIndexOn(c, word) == DigitsMod(HashDigits(word, hash_name[c]), hosts_len[c])

\* one call of _hash_to_index
HashCall(c, word) ==
    /\ hash_calls' = hash_calls \cup
          {[worker |-> c, word |-> word, index |-> HashToIndexOn(c, word)]}
    /\ UNCHANGED <<hash_name, hosts_len>>
    /\ UNCHANGED <<net_vars, map_vars, stream_vars, chunk_vars, inbound_vars>>

\* workers started with any --hash and any list of hosts
HashInit ==
    /\ expected_workers = 1
    /\ registration_timeout = FALSE
    /\ stage_timeout = FALSE
    /\ MasterInit
    /\ ConnIdle(Conns)
    /\ WireIdle(Conns)
    /\ ChunkIdle
    /\ file = <<>>
    /\ map_workers = 1
    /\ hash_name \in [Conns -> HashNames]
    /\ hosts_len \in [Conns -> 1..MaxHosts]
    /\ hash_calls = {}

HashNext == \E c \in Conns : \E word \in Words : HashCall(c, word)

SpecHash == HashInit /\ [][HashNext]_vars

\* ------------------------------------- control messages of an unknown type
\* A control message whose "type" neither side knows, as a peer of another
\* version would send.
UnknownMsg ==
    [type |-> "unknown", machine_index |-> 0, success |-> TRUE, results |-> <<>>]
UnknownPayload == [type |-> "unknown", reason |-> "none"]

HasUnknown(box) == \E k \in DOMAIN box : box[k].type = "unknown"

\* the peer of connection c writes a message of an unknown type to the master
PeerSendsUnknown(c) ==
    /\ Running(c)
    /\ sock[c] = "open"
    /\ ~HasUnknown(inbox[c])
    /\ SendControl(c, UnknownMsg)
    /\ UNCHANGED <<master_vars, coord_vars, sock, handler, info_index, outbox,
                   worker_vars, obs_vars>>
    /\ UNCHANGED unit_vars

\* a message of an unknown type reaches the worker of connection c
WorkerGetsUnknown(c) ==
    /\ Running(c)
    /\ sock[c] = "open"
    /\ ~HasUnknown(outbox[c])
    /\ outbox' = [outbox EXCEPT ![c] = Append(@, UnknownPayload)]
    /\ UNCHANGED <<master_vars, coord_vars, sock, handler, info_index, inbox,
                   worker_vars, obs_vars>>
    /\ UNCHANGED unit_vars

\* the peer of connection c writes a frame whose payload is not JSON
PeerSendsMalformed(c) ==
    /\ Running(c)
    /\ sock[c] = "open"
    /\ ~HasBadFrame(inbox[c])
    /\ SendControl(c, BadFrame("malformed"))
    /\ UNCHANGED <<master_vars, coord_vars, sock, handler, info_index, outbox,
                   worker_vars, obs_vars>>
    /\ UNCHANGED unit_vars

\* the peer of connection c goes away in the middle of a frame
PeerSendsTruncated(c) ==
    /\ Running(c)
    /\ sock[c] = "open"
    /\ ~HasBadFrame(inbox[c])
    /\ SendControl(c, BadFrame("truncated"))
    /\ worker' = [worker EXCEPT ![c] = "exited"]
    /\ sock' = [sock EXCEPT ![c] = "peer_closed"]
    /\ outbox' = [outbox EXCEPT ![c] = <<>>]
    /\ UNCHANGED <<master_vars, coord_vars, handler, info_index, worker_id,
                   shuffle_vars, obs_vars>>
    /\ UNCHANGED unit_vars

\* Mutant of ControlUnknown: an unknown type ends the control loop.
ControlUnknownFatal(c) ==
    /\ Running(c)
    /\ outbox[c] # <<>>
    /\ Head(outbox[c]).type = "unknown"
    /\ WorkerExit(c)
    /\ UNCHANGED <<master_vars, coord_vars, handler, info_index, inbox, worker_id,
                   shuffle_vars, obs_vars>>
    /\ UNCHANGED unit_vars

\* _control_loop, lines 163-167: the message is printed and the loop goes on
ControlUnknown(c) ==
    /\ Running(c)
    /\ outbox[c] # <<>>
    /\ Head(outbox[c]).type = "unknown"
    /\ outbox' = [outbox EXCEPT ![c] = Tail(@)]
    /\ UNCHANGED <<master_vars, coord_vars, sock, handler, info_index, inbox,
                   worker_vars, obs_vars>>
    /\ UNCHANGED unit_vars

\* A job without deadlines whose workers are not killed, with peers that
\* write messages of an unknown type.
UnknownInit ==
    /\ expected_workers \in 1..MaxExpected
    /\ registration_timeout = FALSE
    /\ stage_timeout = FALSE
    /\ MasterInit
    /\ ConnInit(Conns)

UnknownNext ==
    \/ CoordinateStartMap
    \/ CoordinateStartReduce
    \/ CoordinateShutdown
    \/ BroadcastSend
    \/ BroadcastEnd
    \/ \E c \in Conns :
          \/ HandleClient(c)
          \/ HandleClientExit(c)
          \/ \E i \in Indices : Connect(c, i)
          \/ ControlStartMap(c)
          \/ ControlStartReduce(c)
          \/ ControlShutdown(c)
          \/ ControlEOF(c)
          \/ PeerSendsUnknown(c)
          \/ WorkerGetsUnknown(c)
          \/ ControlUnknown(c)

SpecUnknown == UnknownInit /\ [][UnknownNext]_vars

\* What a peer reports when it reports again: another list of results.
RepeatedResults == <<<<"b", 2>>>>

\* the peer of connection c sends once more a report it has already sent
PeerRepeatsReport(c) ==
    /\ sock[c] = "open"
    /\ inbox[c] = <<>>
    /\ \/ /\ worker[c] = "mapped"
          /\ \E status \in BOOLEAN : SendControl(c, MapFinishedMsg(worker_id[c], status))
       \/ /\ worker[c] = "reduced"
          /\ \/ SendControl(c, ReduceFinishedMsg(worker_id[c], TRUE, RepeatedResults))
             \/ SendControl(c, ReduceFinishedMsg(worker_id[c], FALSE, <<>>))
    /\ UNCHANGED <<master_vars, coord_vars, sock, handler, info_index, outbox,
                   worker_vars, obs_vars>>
    /\ UNCHANGED unit_vars

\* The same job with peers that send a report more than once.
RepeatNext ==
    \/ CoordinateStartMap
    \/ CoordinateStartReduce
    \/ CoordinateShutdown
    \/ BroadcastSend
    \/ BroadcastEnd
    \/ \E c \in Conns :
          \/ HandleClient(c)
          \/ HandleClientExit(c)
          \/ \E i \in Indices : Connect(c, i)
          \/ ControlStartMap(c)
          \/ ControlStartReduce(c)
          \/ ControlShutdown(c)
          \/ ControlEOF(c)
          \/ PeerRepeatsReport(c)

SpecRepeat == UnknownInit /\ [][RepeatNext]_vars

\* The same job with peers that write frames that cannot be read.
FramingNext ==
    \/ CoordinateStartMap
    \/ CoordinateStartReduce
    \/ CoordinateShutdown
    \/ BroadcastSend
    \/ BroadcastEnd
    \/ \E c \in Conns :
          \/ HandleClient(c)
          \/ HandleClientBadFrame(c)
          \/ HandleClientExit(c)
          \/ \E i \in Indices : Connect(c, i)
          \/ ControlStartMap(c)
          \/ ControlStartReduce(c)
          \/ ControlShutdown(c)
          \/ ControlEOF(c)
          \/ PeerSendsMalformed(c)
          \/ PeerSendsTruncated(c)

SpecFraming == UnknownInit /\ [][FramingNext]_vars

\* ------------------------------------------------- the aggregation alone
MaxAggWorkers == 2
MaxCount == 2

AggConns == 1..MaxAggWorkers
AggWords == {"a", "b"}

\* The accumulators a worker can hold: every word it holds has a count of at
\* least one.
AggCounters == UNION {[held -> 1..MaxCount] : held \in SUBSET AggWords}

\* The master in the Reduce stage, after start_reduce went to every registered
\* worker; the workers hold any accumulators.
AggInit ==
    /\ expected_workers \in AggConns
    /\ registration_timeout = FALSE
    /\ stage_timeout = FALSE
    /\ clients = [i \in AggConns |-> i]
    /\ map_finished = [i \in AggConns |-> TRUE]
    /\ reduce_results = EmptyDict
    /\ start_map_sent = TRUE
    /\ start_reduce_sent = TRUE
    /\ current_stage = "reduce"
    /\ stop_event = FALSE
    /\ registration_deadline = "none"
    /\ stage_deadlines = [map |-> "none", reduce |-> DeadlineFromTimeout(stage_timeout)]
    /\ coord_pc = "locked"
    /\ payload = NoPayload
    /\ clients_snapshot = {}
    /\ failed = {}
    /\ post_action = "none"
    /\ final_counts = [printed |-> 0, counts |-> EmptyDict]
    /\ sock = [c \in AggConns |-> "open"]
    /\ handler = [c \in AggConns |-> "recv"]
    /\ info_index = [c \in AggConns |-> c]
    /\ inbox = [c \in AggConns |-> <<>>]
    /\ outbox = [c \in AggConns |-> <<StartReducePayload>>]
    /\ worker = [c \in AggConns |-> "mapped"]
    /\ worker_id = [c \in AggConns |-> c]
    /\ incoming_counts \in [AggConns -> AggCounters]
    /\ UnitIdle(AggConns)
    /\ shuffle = [src \in AggConns |-> [dst \in AggConns |-> <<>>]]
    /\ sent = [start_map |-> 1, start_reduce |-> 1, shutdown |-> 0, reason |-> "none"]
    /\ failure_reported = FALSE

AggNext ==
    \/ CoordinateShutdown
    \/ BroadcastSend
    \/ BroadcastEnd
    \/ \E c \in AggConns :
          \/ HandleClient(c)
          \/ HandleClientExit(c)
          \/ ReduceStage(c)
          \/ ControlShutdown(c)

SpecAgg == AggInit /\ [][AggNext]_vars

\* The workers whose mapping the master holds.
Recorded == {c \in AggConns : worker_id[c] \in DOMAIN reduce_results}

CountIn(counter, word) == IF word \in DOMAIN counter THEN counter[word] ELSE 0

RECURSIVE TotalOver(_, _)
TotalOver(conns, word) ==
    IF conns = {} THEN 0
    ELSE LET c == CHOOSE d \in conns : TRUE
         IN  CountIn(incoming_counts[c], word) + TotalOver(conns \ {c}, word)

\* C6: the mapping the master emits holds exactly the words of the mappings
\* reported to it, each with the sum of its counts over those mappings; with
\* as many workers as the master expects, these are the mappings of all of them.
C6_AggregationIsSum ==
    [][final_counts'.printed > final_counts.printed =>
          /\ DOMAIN final_counts'.counts =
                {word \in AggWords : \E c \in Recorded : word \in DOMAIN incoming_counts[c]}
          /\ \A word \in DOMAIN final_counts'.counts :
                final_counts'.counts[word] = TotalOver(Recorded, word)
          /\ Cardinality(Recorded) >= expected_workers
          /\ expected_workers = MaxAggWorkers => Recorded = AggConns]_vars

\* The result was emitted from two mappings that share a word and differ in
\* another.
C6_Witness ==
    /\ final_counts.printed = 1
    /\ expected_workers = MaxAggWorkers
    /\ Recorded = AggConns
    /\ \E word \in AggWords : \A c \in AggConns : word \in DOMAIN incoming_counts[c]
    /\ \E word \in AggWords : \E c, d \in AggConns :
          /\ word \in DOMAIN incoming_counts[c]
          /\ word \notin DOMAIN incoming_counts[d]
    /\ \E word \in AggWords : CountIn(final_counts.counts, word) > MaxCount

\* ------------------------------------------------------------------ claims
\* The worker indices registered over a connection that the master has neither
\* closed nor cleaned up.
LiveRegistered ==
    {i \in Indices : \E c \in Conns : /\ info_index[c] = i
                                      /\ handler[c] \in {"recv", "finally"}
                                      /\ sock[c] \in {"open", "peer_closed"}}

\* C1: whenever the coordinator decides the start_map broadcast, at least
\* expected_workers distinct worker indices are registered over a live
\* connection at that instant; registrations removed earlier do not count.
C1_StartMapBarrier ==
    [][(~start_map_sent /\ start_map_sent') =>
          Cardinality(LiveRegistered) >= expected_workers]_vars

\* C1 witness: start_map has just been decided although an earlier registration
\* was removed before the barrier was reached.
C1_Witness ==
    /\ coord_pc = "broadcast"
    /\ payload.type = "start_map"
    /\ clients_snapshot = DictItems(clients)
    /\ \E c \in Conns : handler[c] = "done" /\ info_index[c] # 0

\* C2: a worker that is about to read start_reduce has itself reported
\* map_finished before.
C2_ReduceOnlyAfterOwnMap ==
    \A c \in Conns :
        (Running(c) /\ outbox[c] # <<>> /\ Head(outbox[c]).type = "start_reduce")
            => worker[c] = "mapped"

\* C3: the start_map broadcast is decided at most once, whatever is registered
\* or removed afterwards.
C3_StartMapOnce == sent.start_map <= 1

\* C3 witness: start_map was broadcast, the coordinator is back in its loop and
\* a worker that registered after the broadcast is in the registry.
C3_Witness ==
    /\ sent.start_map = 1
    /\ coord_pc = "locked"
    /\ DictLen(clients) >= expected_workers
    /\ \E i \in DOMAIN clients :
          worker[clients[i]] = "registered" /\ outbox[clients[i]] = <<>>

StageMoves ==
    {<<"registration", "map">>, <<"map", "reduce">>, <<"reduce", "none">>,
     <<"registration", "none">>, <<"map", "none">>}

\* C4: the stage only moves forward along registration -> map -> reduce ->
\* shutdown or from any stage to shutdown; start_reduce is never decided before
\* start_map; each of start_map, start_reduce and shutdown is broadcast at most
\* once.
C4_ForwardOnly ==
    [][/\ current_stage' # current_stage => <<current_stage, current_stage'>> \in StageMoves
       /\ sent'.start_reduce > sent.start_reduce => sent.start_map = 1
       /\ sent'.start_map <= 1
       /\ sent'.start_reduce <= 1
       /\ sent'.shutdown <= 1]_vars

\* C4 witness: a job that went through every stage.
C4_Witness ==
    /\ coord_pc = "done"
    /\ current_stage = "none"
    /\ sent = [start_map |-> 1, start_reduce |-> 1, shutdown |-> 1, reason |-> "none"]

\* C9: once a worker has reported map_finished with success=false, the map
\* barrier does not close (no start_reduce is decided), and the Map stage is
\* left only by the map timeout.
C9_FailedMapBlocksBarrier ==
    [][(\E i \in DOMAIN map_finished : ~map_finished[i]) =>
          /\ start_reduce_sent' = start_reduce_sent
          /\ (current_stage = "map" /\ current_stage' # "map") =>
                sent'.reason = "map_timeout"]_vars

\* C10: once a worker has reported map_finished or reduce_finished with
\* success=false, no final word count is emitted.
C10_AllOrNothing ==
    [][failure_reported => final_counts'.printed = final_counts.printed]_vars

\* The coordinator thread keeps running: its condition wait is bounded by
\* scheduler_poll (line 247), so an enabled transition or send is eventually
\* taken.
FairSpec ==
    /\ Spec
    /\ WF_vars(CoordinateTimeout)
    /\ WF_vars(BroadcastSend)
    /\ WF_vars(BroadcastEnd)

\* C7: once the registration deadline has elapsed (in particular with fewer than
\* expected_workers registered), no start_map is decided, before or after; the
\* coordinator decides a shutdown with reason registration_timeout for the
\* workers registered at that instant and ends.
C7_RegistrationTimeout ==
    /\ [][/\ registration_deadline = "elapsed" => sent'.start_map = sent.start_map
          /\ sent'.reason = "registration_timeout" => sent'.start_map = 0
          /\ (sent'.shutdown > sent.shutdown /\ registration_deadline = "elapsed") =>
                /\ payload' = ShutdownPayload("registration_timeout")
                /\ clients_snapshot' = DictItems(clients)]_vars
    /\ (registration_deadline = "elapsed") ~>
          (coord_pc = "done" /\ sent.reason = "registration_timeout")

\* C7 witness: the timeout shutdown has just been decided with fewer than
\* expected_workers (but some) workers registered, none of them served yet.
C7_Witness ==
    /\ coord_pc = "broadcast"
    /\ payload = ShutdownPayload("registration_timeout")
    /\ clients_snapshot = DictItems(clients)
    /\ DictLen(clients) >= 1
    /\ DictLen(clients) < expected_workers
    /\ \A c \in Conns : worker[c] # "none" => c \in {clients[i] : i \in DOMAIN clients}

StageElapsed(stage) == current_stage = stage /\ stage_deadlines[stage] = "elapsed"

\* C8: once the map (resp. reduce) deadline has elapsed in the Map (resp.
\* Reduce) stage, no start_map or start_reduce is decided and no final result is
\* emitted any more; the coordinator decides a shutdown whose reason names the
\* stage and ends.
C8_StageTimeout ==
    /\ [][(\/ StageElapsed("map")
           \/ StageElapsed("reduce")
           \/ sent.reason \in {"map_timeout", "reduce_timeout"}) =>
              /\ sent'.start_map = sent.start_map
              /\ sent'.start_reduce = sent.start_reduce
              /\ final_counts' = final_counts]_vars
    /\ StageElapsed("map") ~> (coord_pc = "done" /\ sent.reason = "map_timeout")
    /\ StageElapsed("reduce") ~> (coord_pc = "done" /\ sent.reason = "reduce_timeout")

\* C8 witness: the coordinator has ended on a reduce timeout while the reduce
\* barrier was not satisfied.
C8_Witness ==
    /\ coord_pc = "done"
    /\ sent.reason = "reduce_timeout"
    /\ DictLen(reduce_results) < expected_workers
    /\ final_counts.printed = 0

\* The exit status of a Python process whose main module ran to its end.
NormalExit == 0

\* __main__, lines 379-389: server.start() is the last statement.  _coordinate
\* returns at line 255 after a completed job and at line 258 after a timeout;
\* start() returns in both cases and the interpreter ends normally.
ExitStatus(how) ==
    CASE how = "shutdown" -> NormalExit
      [] how = "timeout" -> NormalExit

\* C11: a job that ended through a timeout gives the master process an exit
\* status different from the one of a completed job.
C11_TimeoutExitStatus ==
    (coord_pc = "done" /\ sent.reason \in {"registration_timeout", "map_timeout",
                                           "reduce_timeout"}) =>
        ExitStatus("timeout") # ExitStatus("shutdown")

\* C13: a connection that registered, whose handler is still reading and whose
\* socket the master has not closed, is the registry's entry for its index; in
\* particular the cleanup of a replaced connection's handler leaves the new
\* registration in place.
C13_ReRegistrationKept ==
    \A c \in Conns :
        (/\ info_index[c] # 0
         /\ handler[c] = "recv"
         /\ sock[c] \in {"open", "peer_closed"}) =>
            /\ info_index[c] \in DOMAIN clients
            /\ clients[info_index[c]] = c

\* C12: a map stage that ended in an error is answered by map_finished with
\* success=false on a connection that stays open, and the worker is back in its
\* control loop.
C12_MapErrorReported ==
    [][\A c \in JobConns :
          (/\ worker[c] = "map_finally"
           /\ map_status[c] = "error"
           /\ worker'[c] # "map_finally") =>
              /\ worker'[c] = "mapped"
              /\ sock'[c] = "open"
              /\ inbox'[c] = Append(inbox[c], MapFinishedMsg(worker_id[c], FALSE))]_vars

\* C14: when the register message is sent, the listener thread has bound the
\* shuffle port and listens.
C14_ListeningBeforeRegister ==
    [][\A c \in JobConns :
          (worker[c] = "launched" /\ worker'[c] = "registered") =>
              listener[c] = "listening"]_vars

RECURSIVE ConsumeFrames(_, _)
ConsumeFrames(counter, frames) ==
    IF frames = <<>> THEN counter
    ELSE IF Decode(Head(frames)) = "" THEN ConsumeFrames(counter, Tail(frames))
    ELSE ConsumeFrames(CounterAdd(counter, Decode(Head(frames)), 1), Tail(frames))

\* C15: a frame without payload changes nothing: when the reader of a stream
\* of whole frames has stopped, the words accumulated are those of all the
\* frames written that have a payload, whatever empty frames came before them.
C15_EmptyFrameNoOp ==
    (rd_pc = "stopped" /\ ~written_cut) =>
        ConsumeFrames(EmptyDict, delivered) = ConsumeFrames(EmptyDict, written)

\* C16: the payloads read are the payloads written, in order, the empty
\* payload included.
C16_FrameRoundTrip ==
    /\ Len(delivered) <= Len(written)
    /\ \A k \in DOMAIN delivered : delivered[k] = written[k]
    /\ (rd_pc = "stopped" /\ ~written_cut) => delivered = written

\* C17: a close in the middle of a frame and a close at a frame boundary never
\* give the reader the same result.
C17_TruncatedVsEndOfStream ==
    \A o1, o2 \in outcomes :
        (o1.cause = "truncated" /\ o2.cause = "end_of_stream") =>
            o1.result # o2.result

\* C19: for any file and any number of chunks asked for, the offsets returned
\* by _compute_chunk_offsets start at 0, end at the size of the file, are
\* each non-empty, follow one another with no gap and no overlap, and every
\* boundary but the last lies just after a line terminator.
C19_ChunkTiling ==
    chunk_pc = "offsets" =>
        /\ Len(offsets) >= 1
        /\ offsets[1][1] = 0
        /\ offsets[Len(offsets)][2] = Len(file)
        /\ \A k \in 1..Len(offsets) : offsets[k][1] < offsets[k][2]
        /\ \A k \in 1..(Len(offsets) - 1) :
              /\ offsets[k][2] = offsets[k + 1][1]
              /\ file[offsets[k][2]] = NL

\* C20: when the map stage takes the path by chunks, the counts per
\* destination merged from _process_chunk over the offsets are those of the
\* tokenization of the whole file line by line: every line is counted by
\* exactly one chunk.
C20_ChunkedEqualsSequential ==
    (chunk_pc = "done" /\ use_parallel) => chunk_counts = SequentialCounts(file)

\* the shutdown messages of a completed job written to a connection
ShutdownsIn(box) ==
    Cardinality({k \in DOMAIN box : box[k] = ShutdownPayload("none")})

\* C21: the final aggregation is performed at most once, and exactly once by
\* the time the shutdown of a completed job is written to a worker or the
\* coordinator ends after it; it is performed only when expected_workers
\* reduce_finished reports are recorded.
C21_FinalAggregationOnce ==
    [][/\ final_counts'.printed <= 1
       /\ final_counts'.printed > final_counts.printed =>
             DictLen(reduce_results) >= expected_workers
       /\ (\E c \in Conns : ShutdownsIn(outbox'[c]) > ShutdownsIn(outbox[c])) =>
             final_counts.printed = 1
       /\ (coord_pc' = "done" /\ sent'.reason = "none") =>
             final_counts'.printed = 1]_vars

\* C21 witness: the job has completed, the result was emitted once and every
\* worker has read the shutdown that followed it.
C21_Witness ==
    /\ coord_pc = "done"
    /\ sent.shutdown = 1
    /\ sent.reason = "none"
    /\ final_counts.printed = 1
    /\ DictLen(reduce_results) = expected_workers
    /\ expected_workers = MaxExpected
    /\ \A c \in Conns : worker[c] = "exited" /\ outbox[c] = <<>>

\* Every thread that can run does run: the coordinator (its wait is bounded by
\* scheduler_poll), each handler thread blocked in recv_json, and each worker's
\* control loop blocked in _recv_control, which answers every message it reads.
FairJobSpec ==
    /\ Spec
    /\ WF_vars(CoordinateStartMap)
    /\ WF_vars(CoordinateStartReduce)
    /\ WF_vars(CoordinateShutdown)
    /\ WF_vars(BroadcastSend)
    /\ WF_vars(BroadcastEnd)
    /\ \A c \in Conns :
          /\ WF_vars(HandleClient(c))
          /\ WF_vars(ControlStartMap(c))
          /\ WF_vars(ControlStartReduce(c))

\* a connection was closed before any shutdown was decided, or a deadline has
\* elapsed or ended the job
Disturbed ==
    \/ \E c \in Conns : \/ sock[c] = "peer_closed"
                        \/ sock[c] = "closed" /\ sent.shutdown = 0
    \/ registration_deadline = "elapsed"
    \/ \E stage \in {"map", "reduce"} : stage_deadlines[stage] = "elapsed"
    \/ sent.reason # "none"

\* the coordinator has ended after start_map, start_reduce, the final result
\* and the shutdown of a completed job
JobCompleted ==
    /\ coord_pc = "done"
    /\ sent = [start_map |-> 1, start_reduce |-> 1, shutdown |-> 1, reason |-> "none"]
    /\ final_counts.printed = 1

\* C22: once expected_workers workers are registered, if no connection fails
\* and no deadline elapses, the master broadcasts start_map, then start_reduce,
\* then emits the final result and broadcasts shutdown, and the coordinator ends.
C22_HappyPathLiveness ==
    /\ (DictLen(clients) >= expected_workers) ~> (Disturbed \/ JobCompleted)
    /\ [][/\ sent'.start_reduce > sent.start_reduce => sent.start_map = 1
          /\ final_counts'.printed > final_counts.printed => sent.start_reduce = 1
          /\ sent'.shutdown > sent.shutdown =>
                (sent'.reason = "none" => final_counts'.printed = 1)]_vars

\* C22 witness: a job completed with no connection closed before the shutdown
\* and no deadline configured.
C22_Witness ==
    /\ JobCompleted
    /\ expected_workers = MaxExpected
    /\ ~registration_timeout
    /\ ~stage_timeout
    /\ \A c \in Conns : worker[c] = "exited" /\ sock[c] = "closed" /\ handler[c] = "done"

RemoteSend(c) ==
    /\ worker[c] = "map_body"
    /\ map_input[c] # <<>>
    /\ map_input'[c] = Tail(map_input[c])
    /\ HashToIndex(Head(map_input[c])) # MachineIndex(c)
    /\ map_status'[c] # "error"

\* C24: with a flush threshold of 0, when a _send_word call for another worker
\* returns, the pending buffer of that destination is empty and the bytes
\* written to that destination by the call are exactly the frame of the word;
\* nothing is written to any other destination.
C24_ImmediateFlush ==
    [][\A c \in JobConns :
          (RemoteSend(c) /\ flush_threshold[c] = 0) =>
              LET word == Head(map_input[c])
                  destination == HashToIndex(word)
              IN  /\ PendingBuf(pending_frames'[c], destination) = <<>>
                  /\ shuffle'[c][destination + 1] =
                        shuffle[c][destination + 1] \o Frame(Encode(word))
                  /\ \A dst \in JobConns \ {destination + 1} :
                        shuffle'[c][dst] = shuffle[c][dst]]_vars

\* C24 witness: a worker with threshold 0 has sent its two words to the same
\* other worker, one write each, and holds nothing back.
C24_Witness ==
    \E c \in JobConns :
        /\ flush_threshold[c] = 0
        /\ worker[c] = "map_body"
        /\ map_input[c] = <<>>
        /\ MachineIndex(c) # HashToIndex("b")
        /\ shuffle[c][HashToIndex("b") + 1] = Frame(Encode("b")) \o Frame(Encode("b"))
        /\ PendingBuf(pending_frames[c], HashToIndex("b")) = <<>>

\* worker c reads the next word of its split and calls _send_word
SendStep(c) ==
    /\ worker[c] = "map_body"
    /\ map_input[c] # <<>>
    /\ map_input'[c] = Tail(map_input[c])

\* the finally clause of the map stage of worker c runs to its end
FlushAllStep(c) == worker[c] = "map_finally" /\ worker'[c] = "mapped"

C26_OutgoingClosedAfterMap ==
    \A c \in JobConns :
        (map_status[c] # "none" /\ worker[c] \notin {"map_body", "map_finally"}) =>
            /\ \A k \in DOMAIN pending_frames[c] : pending_frames[c][k].buf = <<>>
            /\ outgoing_sockets[c] = {}

\* _broadcast and _remove_failed_clients return and the coordinator goes on
BroadcastReturns ==
    /\ coord_pc = "broadcast"
    /\ coord_pc' = "locked"

\* C27: a send of _broadcast that fails does not end the broadcast: every
\* entry of the snapshot is sent to, an open connection gets the message, and
\* only a connection that is not open is put in the failed list; when
\* _broadcast returns, an index is removed from the registry if and only if it
\* is in the failed list with the connection the registry maps it to, and
\* every other entry is kept as it was.
C27_BroadcastFailureIsolated ==
    [][/\ (coord_pc = "broadcast" /\ coord_pc' # "broadcast") => clients_snapshot = {}
       /\ \A item \in clients_snapshot \ clients_snapshot' :
             /\ sock[item[2]] = "open" =>
                   /\ outbox'[item[2]] = Append(outbox[item[2]], payload)
                   /\ item \notin failed'
             /\ failed' \subseteq failed \cup {item}
       /\ BroadcastReturns =>
             \A i \in DOMAIN clients :
                 IF <<i, clients[i]>> \in failed
                 THEN i \notin DOMAIN clients'
                 ELSE i \in DOMAIN clients' /\ clients'[i] = clients[i]]_vars

\* C27 witness: the start_map broadcast has failed for one worker of the
\* snapshot, still registered with that connection, and has reached the other.
C27_Witness ==
    /\ coord_pc = "broadcast"
    /\ payload = StartMapPayload
    /\ clients_snapshot = {}
    /\ \E item \in failed :
          /\ item[1] \in DOMAIN clients
          /\ clients[item[1]] = item[2]
          /\ \E c \in Conns \ {item[2]} :
                /\ \E i \in DOMAIN clients : clients[i] = c
                /\ outbox[c] = <<StartMapPayload>>

\* the barrier count of the current stage is reached
BarrierReached ==
    \/ current_stage = "map" /\ DictLen(map_finished) >= expected_workers
    \/ current_stage = "reduce" /\ DictLen(reduce_results) >= expected_workers

\* a connection is closed at either end, or its handler thread ends
Disconnects(c) ==
    \/ sock[c] = "open" /\ sock'[c] # "open"
    \/ handler[c] # "done" /\ handler'[c] = "done"

\* C28: in the Map and Reduce stages the master leaves the stage, or decides a
\* start_map, start_reduce or shutdown broadcast, only when the barrier count
\* of the stage is reached or the deadline of the stage has elapsed; a step in
\* which a connection closes or its handler ends changes neither the stage nor
\* the broadcasts decided, nor whether the barrier is reached.
C28_DisconnectNoTransition ==
    [][(current_stage = "map" \/ current_stage = "reduce") =>
          /\ (current_stage' # current_stage \/ sent' # sent) =>
                (BarrierReached \/ StageElapsed(current_stage))
          /\ \A c \in Conns :
                Disconnects(c) =>
                    /\ current_stage' = current_stage
                    /\ sent' = sent
                    /\ (BarrierReached' <=> BarrierReached)]_vars

\* C28 witness: in the Map stage a worker has gone without reporting
\* map_finished, its handler has cleaned up, and the master waits in the stage
\* with fewer reports than expected_workers and nothing more decided.
C28_Witness ==
    /\ current_stage = "map"
    /\ coord_pc = "locked"
    /\ sent = [start_map |-> 1, start_reduce |-> 0, shutdown |-> 0, reason |-> "none"]
    /\ DictLen(map_finished) < expected_workers
    /\ DictLen(clients) < expected_workers
    /\ \E c \in Conns :
          /\ handler[c] = "done"
          /\ worker[c] = "exited"
          /\ info_index[c] # 0
          /\ info_index[c] \notin DOMAIN map_finished

NoTimeoutConfigured == ~registration_timeout /\ ~stage_timeout

\* C29: with neither timeout configured no deadline is ever set and no
\* timeout shutdown is ever decided; the master leaves its stages only through
\* the barriers, so it is in Shutdown only after start_map was sent and
\* expected_workers map_finished and reduce_finished reports were recorded.
C29_NoTimeoutNoShutdown ==
    NoTimeoutConfigured =>
        /\ registration_deadline = "none"
        /\ stage_deadlines = [map |-> "none", reduce |-> "none"]
        /\ sent.reason = "none"
        /\ post_action # "timeout"
        /\ (current_stage = "none" \/ sent.shutdown > 0 \/ coord_pc = "done") =>
              /\ start_map_sent
              /\ DictLen(map_finished) >= expected_workers
              /\ DictLen(reduce_results) >= expected_workers

\* C29 witness: without timeouts, the Map stage with every worker gone and a
\* report missing; the coordinator waits in its loop.
C29_Witness ==
    /\ NoTimeoutConfigured
    /\ current_stage = "map"
    /\ coord_pc = "locked"
    /\ ~stop_event
    /\ DictLen(map_finished) < expected_workers
    /\ \A c \in Conns : worker[c] = "exited" /\ handler[c] = "done"

\* C30: the registration deadline is set only in the Registration stage, the
\* map deadline only in the Map stage, the reduce deadline only in the Reduce
\* stage, and in Shutdown, reached by completion or by a timeout, none is set.
C30_DeadlinesFollowStage ==
    /\ registration_deadline # "none" => current_stage = "registration"
    /\ stage_deadlines["map"] # "none" => current_stage = "map"
    /\ stage_deadlines["reduce"] # "none" => current_stage = "reduce"
    /\ current_stage = "none" =>
          /\ registration_deadline = "none"
          /\ stage_deadlines = [map |-> "none", reduce |-> "none"]

\* C30 witness: with both timeouts configured the job was shut down from the
\* Reduce stage, whose deadline had been the only one set, and every deadline
\* is cleared.
C30_Witness ==
    /\ registration_timeout
    /\ stage_timeout
    /\ current_stage = "none"
    /\ sent.start_reduce = 1
    /\ sent.reason = "reduce_timeout"
    /\ registration_deadline = "none"
    /\ stage_deadlines = [map |-> "none", reduce |-> "none"]

\* C31: when the handler of a connection reads a message of an unknown type,
\* the registry, the map_finished and reduce_finished maps, the stage and the
\* deadlines are unchanged and the handler goes on reading (unless the stop
\* event is set); when a worker's control loop reads one, it starts no stage,
\* writes no reply and goes on reading.
C31_UnknownTypeIgnored ==
    [][\A c \in Conns :
          /\ (/\ inbox[c] # <<>>
              /\ Head(inbox[c]).type = "unknown"
              /\ handler[c] = "recv"
              /\ sock[c] \in {"open", "peer_closed"}
              /\ Len(inbox'[c]) < Len(inbox[c])) =>
                /\ inbox'[c] = Tail(inbox[c])
                /\ UNCHANGED <<clients, map_finished, reduce_results, current_stage,
                               registration_deadline, stage_deadlines, sock, sent>>
                /\ handler'[c] = IF stop_event THEN "finally" ELSE "recv"
          /\ (/\ outbox[c] # <<>>
              /\ Head(outbox[c]).type = "unknown"
              /\ Len(outbox'[c]) < Len(outbox[c])) =>
                /\ outbox'[c] = Tail(outbox[c])
                /\ worker'[c] = worker[c]
                /\ inbox'[c] = inbox[c]
                /\ incoming_counts'[c] = incoming_counts[c]]_vars

\* C31 witness: a registered worker and its handler have each read a message
\* of an unknown type and the job then went on to the Map stage on that
\* connection.
C31_Witness ==
    \E c \in Conns :
        /\ worker[c] = "mapped"
        /\ handler[c] = "recv"
        /\ HasUnknown(inbox[c])
        /\ Head(inbox[c]).type = "unknown"
        /\ outbox[c] = <<UnknownPayload>>
        /\ info_index[c] \in DOMAIN clients

\* C32: when the handler of a connection meets a frame it cannot read
\* (truncated, or not JSON), only that handler leaves its loop: the other
\* handlers, the coordinator's position, the stop event, the stage, the
\* map_finished and reduce_results maps and the registry are unchanged; and
\* when a handler then runs its finally block, the stage and the two maps are
\* unchanged and so is the registry entry of every index but its own.
C32_FramingErrorIsLocal ==
    [][\A c \in Conns :
          /\ (/\ handler[c] = "recv"
              /\ sock[c] \in {"open", "peer_closed"}
              /\ inbox[c] # <<>>
              /\ Head(inbox[c]).type \in FramingErrors
              /\ Len(inbox'[c]) < Len(inbox[c])) =>
                /\ handler'[c] = "finally"
                /\ \A d \in Conns \ {c} : handler'[d] = handler[d]
                /\ UNCHANGED <<coord_pc, stop_event, current_stage, map_finished,
                               reduce_results, clients, sent, sock>>
          /\ (handler[c] = "finally" /\ handler'[c] = "done") =>
                /\ \A d \in Conns \ {c} : handler'[d] = handler[d] /\ sock'[d] = sock[d]
                /\ UNCHANGED <<coord_pc, stop_event, current_stage, map_finished,
                               reduce_results, sent>>
                /\ \A i \in Indices \ {info_index[c]} :
                      /\ (i \in DOMAIN clients') = (i \in DOMAIN clients)
                      /\ i \in DOMAIN clients => clients'[i] = clients[i]]_vars

\* C32 witness: in the Map stage a handler has left its loop on a framing
\* error (the stop event is not set) while another connection is registered
\* and its handler is reading.
C32_Witness ==
    \E c, d \in Conns :
        /\ c # d
        /\ handler[c] = "finally"
        /\ ~stop_event
        /\ current_stage = "map"
        /\ coord_pc = "locked"
        /\ handler[d] = "recv"
        /\ info_index[d] \in DOMAIN clients
        /\ info_index[d] # info_index[c]

\* the destination for which the step of worker c may flush: one whose buffer
\* holds bytes, or the one of the word being routed
FlushesFor(c, destination) ==
    \/ PendingBuf(pending_frames[c], destination) # <<>>
    \/ /\ worker[c] = "map_body"
       /\ map_input[c] # <<>>
       /\ HashToIndex(Head(map_input[c])) = destination

\* a connection to some destination could not be established by worker c
ConnectFailed(c) ==
    \E d \in Destinations :
        /\ d \notin outgoing_sockets[c]
        /\ Attempts(connect_attempts[c], d) >= MaxConnectAttempts

\* C33: a worker attempts a connection to a destination only in a step that
\* flushes for that destination and only when no socket to it is cached, the
\* attempts of one establishment are at most MaxConnectAttempts, and a map
\* stage in which an establishment failed ends with map_finished sent with
\* success false.
C33_LazyCachedBoundedConnect ==
    [][\A c \in JobConns :
          /\ \A d \in Destinations :
                Attempts(connect_attempts'[c], d) # Attempts(connect_attempts[c], d) =>
                   /\ FlushesFor(c, d)
                   /\ d \notin outgoing_sockets[c]
                   /\ Attempts(connect_attempts'[c], d)
                        <= Attempts(connect_attempts[c], d) + MaxConnectAttempts
          /\ (/\ worker[c] = "map_finally"
              /\ ConnectFailed(c)
              /\ worker'[c] # worker[c]) =>
                /\ worker'[c] = "mapped"
                /\ sock[c] = "open" =>
                      inbox'[c] = Append(inbox[c], MapFinishedMsg(worker_id[c], FALSE))]_vars

\* worker c reads start_reduce and runs the reduce stage in this step
ReduceStep(c) ==
    /\ Running(c)
    /\ outbox[c] # <<>>
    /\ Head(outbox[c]).type = "start_reduce"
    /\ worker'[c] = "reduced"

\* the entries are in strictly increasing word order and are exactly the
\* (word, count) pairs of the counter
SortedSnapshotOf(results, counter) ==
    /\ \A j, k \in DOMAIN results : j < k => WordRank(results[j][1]) < WordRank(results[k][1])
    /\ {results[k] : k \in DOMAIN results} = DictItems(counter)

\* C34: the step in which a worker runs the reduce stage leaves its
\* accumulator, every shuffle stream, the outgoing buffers and sockets and the
\* connection attempts unchanged, and the only message it writes is one
\* reduce_finished to the master, whose results are the entries of the
\* accumulator at that instant, one per word, in increasing word order.
C34_ReduceIsLocalSnapshot ==
    [][\A c \in JobConns :
          ReduceStep(c) =>
             /\ UNCHANGED <<incoming_counts, shuffle, pending_frames, outgoing_sockets,
                            connect_attempts, sock>>
             /\ \A d \in JobConns \ {c} : inbox'[d] = inbox[d]
             /\ sock[c] = "open" =>
                   /\ Len(inbox'[c]) = Len(inbox[c]) + 1
                   /\ SubSeq(inbox'[c], 1, Len(inbox[c])) = inbox[c]
                   /\ LET message == inbox'[c][Len(inbox'[c])]
                      IN  /\ message.type = "reduce_finished"
                          /\ message.machine_index = worker_id[c]
                          /\ message.success
                          /\ SortedSnapshotOf(message.results, incoming_counts[c])
             /\ sock[c] # "open" => inbox'[c] = inbox[c]]_vars

\* C34 witness: a worker has reported a snapshot of two words and still
\* holds them.
C34_Witness ==
    \E c \in JobConns :
        /\ worker[c] = "reduced"
        /\ inbox[c] # <<>>
        /\ inbox[c][Len(inbox[c])].type = "reduce_finished"
        /\ Len(inbox[c][Len(inbox[c])].results) >= 2
        /\ DictLen(incoming_counts[c]) >= 2

\* the count of a word in a counter, an absent word counted as zero
CountOf(counter, word) == IF word \in DOMAIN counter THEN counter[word] ELSE 0

\* worker c has not taken its reduce snapshot yet
BeforeSnapshot(c) == worker[c] \in {"registered", "mapped"}

\* C36: before a worker's reduce snapshot no step lowers the count of a word
\* in its accumulator, the step in which it processes its own start_map
\* included.
C36_DeliveredWordsKept ==
    [][\A c \in JobConns : \A word \in Words :
          BeforeSnapshot(c) =>
             CountOf(incoming_counts'[c], word) >= CountOf(incoming_counts[c], word)]_vars

\* C37: in the step in which a worker takes its reduce snapshot, the stream
\* from every peer that has sent map_finished holds no unread frame.
C37_SnapshotAfterDelivery ==
    [][\A c \in JobConns :
          ReduceStep(c) =>
             \A src \in JobConns :
                worker[src] \in {"mapped", "reduced", "exited"} => shuffle[src][c] = <<>>]_vars

\* the reasons of a shutdown decided on an elapsed deadline
TimeoutReasons == {"registration_timeout", "map_timeout", "reduce_timeout"}

\* the barrier of the current stage is satisfied
BarrierSatisfied ==
    \/ ~start_map_sent /\ DictLen(clients) >= expected_workers
    \/ start_map_sent /\ ~start_reduce_sent /\ DictLen(map_finished) >= expected_workers
    \/ start_reduce_sent /\ DictLen(reduce_results) >= expected_workers

\* C38: when the coordinator wakes up with the active deadline elapsed, the
\* step it takes decides the shutdown whose reason names the stage of that
\* deadline, whether the barrier of the stage is satisfied or not; that step
\* and every later one decide no start_map, no start_reduce and emit no final
\* result.
C38_TimeoutBeforeProgress ==
    [][/\ (/\ coord_pc = "locked"
           /\ ~stop_event
           /\ DeadlineExpiredLocked # "none"
           /\ coord_pc' # coord_pc) =>
              /\ payload' = ShutdownPayload(TimeoutReason(DeadlineExpiredLocked))
              /\ post_action' = "timeout"
              /\ stop_event'
              /\ sent'.start_map = sent.start_map
              /\ sent'.start_reduce = sent.start_reduce
              /\ final_counts' = final_counts
       /\ sent.reason \in TimeoutReasons =>
              /\ sent' = sent
              /\ final_counts' = final_counts]_vars

\* C38 witness: the reduce deadline had elapsed with every reduce_finished
\* recorded, and the coordinator has decided the reduce_timeout shutdown
\* without emitting the final result.
C38_Witness ==
    /\ coord_pc = "broadcast"
    /\ post_action = "timeout"
    /\ payload = ShutdownPayload("reduce_timeout")
    /\ start_reduce_sent
    /\ BarrierSatisfied
    /\ final_counts.printed = 0

\* the handler of connection c processes in this step the report at the head
\* of its inbox, of the given type
ProcessesReport(c, type) ==
    /\ handler[c] = "recv"
    /\ sock[c] \in {"open", "peer_closed"}
    /\ inbox[c] # <<>>
    /\ Head(inbox[c]).type = type
    /\ Len(inbox'[c]) < Len(inbox[c])

\* the sum over the given indices of the counts recorded for a word
RECURSIVE SumOverIndices(_, _, _)
SumOverIndices(results, indices, word) ==
    IF indices = {} THEN 0
    ELSE LET i == CHOOSE k \in indices : TRUE
         IN  CountOf(results[i], word) + SumOverIndices(results, indices \ {i}, word)

\* C39: a map_finished or reduce_finished for an index already recorded
\* leaves the number of recorded indices as it is; a reduce_finished puts its
\* own counts in the place of those recorded for its index and leaves the
\* other indices alone; and the final result counts each word as the sum, over
\* the recorded indices, of the one mapping recorded for each.
C39_BarrierPerIndex ==
    [][/\ \A c \in Conns :
            /\ ProcessesReport(c, "map_finished") =>
                 LET i == Head(inbox[c]).machine_index
                 IN  /\ DOMAIN map_finished' = DOMAIN map_finished \cup {i}
                     /\ i \in DOMAIN map_finished =>
                           DictLen(map_finished') = DictLen(map_finished)
                     /\ reduce_results' = reduce_results
            /\ ProcessesReport(c, "reduce_finished") =>
                 LET message == Head(inbox[c])
                     i == message.machine_index
                 IN  /\ DOMAIN reduce_results' = DOMAIN reduce_results \cup {i}
                     /\ i \in DOMAIN reduce_results =>
                           DictLen(reduce_results') = DictLen(reduce_results)
                     /\ DictItems(reduce_results'[i]) =
                           IF message.success
                           THEN {message.results[k] : k \in DOMAIN message.results}
                           ELSE {}
                     /\ \A j \in DOMAIN reduce_results \ {i} :
                           reduce_results'[j] = reduce_results[j]
                     /\ map_finished' = map_finished
       /\ final_counts'.printed > final_counts.printed =>
            \A word \in Words :
               CountOf(final_counts'.counts, word) =
                  SumOverIndices(reduce_results, DOMAIN reduce_results, word)]_vars

\* C39 witness: a master that waits for one worker has printed the counts of
\* a report that worker sent after its first one, and nothing of the first.
C39_Witness ==
    /\ expected_workers = 1
    /\ final_counts.printed = 1
    /\ DictLen(reduce_results) = 1
    /\ final_counts.counts = ResultsDict(RepeatedResults)

\* the threads of worker c that serve its shuffle port have all ended
ThreadsEnded(c) ==
    /\ listener[c] \in {"none", "done"}
    /\ \A src \in JobConns : consumers[c][src] \in {"none", "done"}

\* C35: a control loop that reads shutdown, or finds the master connection
\* closed, ends with the shutdown event set; once the event is set the worker
\* starts no stage and writes nothing more to the master; and with its
\* threads scheduled fairly the listener and every inbound handler end.
C35_CooperativeShutdown ==
    /\ [][\A c \in JobConns :
            /\ (/\ Running(c)
                /\ outbox[c] # <<>>
                /\ Head(outbox[c]).type = "shutdown"
                /\ Len(outbox'[c]) < Len(outbox[c])) => ShutdownEventSet(c)'
            /\ (/\ Running(c)
                /\ outbox[c] = <<>>
                /\ sock[c] = "closed"
                /\ worker'[c] # worker[c]) => ShutdownEventSet(c)'
            /\ ShutdownEventSet(c) =>
                 /\ ShutdownEventSet(c)'
                 /\ Len(inbox'[c]) <= Len(inbox[c])
                 /\ listener'[c] \in {listener[c], "done"}]_vars
    /\ \A c \in JobConns : ShutdownEventSet(c) ~> [](ThreadsEnded(c))

\* C35 witness: the control loop has read shutdown while the listener was
\* accepting and two inbound handlers were running, one blocked in recv and
\* one with a frame to read.
C35_Witness ==
    \E c \in JobConns : \E s1, s2 \in Peers(c) :
        /\ s1 # s2
        /\ ShutdownEventSet(c)
        /\ sent.shutdown = 1
        /\ listener[c] = "listening"
        /\ consumers[c][s1] = "recv"
        /\ shuffle[s1][c] = <<>>
        /\ inbound[c][s1] = "open"
        /\ consumers[c][s2] = "recv"
        /\ shuffle[s2][c] # <<>>

\* the bytes of the frames of the given payloads, one after the other
RECURSIVE FrameBytes(_)
FrameBytes(payloads) ==
    IF payloads = <<>> THEN <<>>
    ELSE Frame(Head(payloads)) \o FrameBytes(Tail(payloads))

\* the bytes of the frame the reader is in the middle of
PartialFrame ==
    IF rd_pc = "payload" THEN Pack(rd_size) \o rd_buf
    ELSE IF rd_pc = "header" THEN rd_buf
    ELSE <<>>

\* C40: on an inbound shuffle stream whose peer writes frames of words, the
\* bytes written are at every instant the frames handed on, followed by the
\* part of a frame the handler holds, followed by the bytes not yet read: no
\* byte read is dropped, a read timeout included, and the payloads handed on
\* are the payloads written, in order.
C40_AlignedAcrossTimeouts ==
    rd_pc # "stopped" =>
        /\ FrameBytes(written) = FrameBytes(delivered) \o PartialFrame \o wire \o unsent
        /\ Len(delivered) <= Len(written)
        /\ \A k \in DOMAIN delivered : delivered[k] = written[k]

=============================================================================
